---------------------------- MODULE Spec2Model ----------------------------
(***************************************************************************)
(* A model of ns1_exporter: the provider API adapter (pkg/ns1), the QPS    *)
(* exporter worker (pkg/exporter) and the HTTP service-discovery worker    *)
(* (pkg/servicediscovery).                                                 *)
(*                                                                         *)
(* The NS1 API is the environment: every call a worker makes is answered   *)
(* nondeterministically (success with some data, or failure).              *)
(***************************************************************************)
EXTENDS Integers, Sequences, FiniteSets, TLC

VARIABLES
    sdWorker,        \* servicediscovery.Worker (sd.go:65-77)
    exporterWorker,  \* exporter.Worker (exporter.go:33-43)
    apiFailures,     \* metrics.MetricExporterNS1APIFailures
    now,             \* the wall clock read by time.Now()
    calls,           \* the provider API calls issued by the last operation
    lastCall,        \* what the last operation was and what it was given
    sdSkips,         \* SD Refresh calls in a row without a full refresh
    response,        \* the last response written by ServeHTTP
    ch,              \* the metrics the last Collect sent on its channel
    zdIn,            \* the arguments of the last direct call of a function
    zdOut,           \* (RefreshZoneData, the label functions); its result
    race,            \* cache reader/writer interleaving (word by word)
    group,           \* the process: its flags, the run.Group and its actors
    activityLog      \* the provider's account activity log

vars == <<sdWorker, exporterWorker, apiFailures, now, calls, lastCall,
          sdSkips, response, ch, zdIn, zdOut, race, group, activityLog>>

-----------------------------------------------------------------------------
(* Bounds of the model.                                                    *)

\* the account holds the first MaxZones zones of ZoneOrder
MaxZones == 2
\* the failure counter is followed up to MaxFailures
MaxFailures == 2
\* refresh passes followed word by word
MaxPasses == 2
\* each refresh actor takes up to MaxTicks ticks of its ticker
MaxTicks == 2
\* the clock is followed up to MaxClock ticks
MaxClock == 4
\* the activity log holds up to MaxEntries entries
MaxEntries == 2
\* a Refresh call takes up to MaxElapsed ticks
MaxElapsed == 1

-----------------------------------------------------------------------------
(* Go values.                                                              *)

\* A Go slice is nil or holds elements; len() of both a nil and an empty
\* slice is 0, but they differ under `!= nil` and under encoding/json.
NilSlice == [nil |-> TRUE, elems |-> <<>>]
MakeSlice(s) == [nil |-> FALSE, elems |-> s]
\* append(sl, x): the result is never nil
AppendSlice(sl, x) == [nil |-> FALSE, elems |-> Append(sl.elems, x)]
SliceLen(sl) == Len(sl.elems)

\* a nil *regexp.Regexp
NilRegexp == [nil |-> TRUE, expr |-> ""]
Regexp(e) == [nil |-> FALSE, expr |-> e]

Range(s) == {s[i] : i \in DOMAIN s}

\* every order in which a Go `range` may visit the keys of a map
RECURSIVE Orders(_)
Orders(S) ==
    IF S = {} THEN {<<>>}
    ELSE UNION {{<<x>> \o o : o \in Orders(S \ {x})} : x \in S}

-----------------------------------------------------------------------------
(* regexp.MatchString for the patterns the flags are given in practice:    *)
(* literal characters, `.` (any character), a postfix `+` and a top-level  *)
(* `|`.  A match is unanchored, as in Go: the pattern may match anywhere   *)
(* in the string, and the empty pattern matches every string.              *)

CharAt(s, i) == SubSeq(s, i, i)

AtomMatches(a, c) == a = "." \/ a = c

\* does pattern p (no `|`) match a prefix of s
RECURSIVE MatchHere(_, _)
MatchHere(p, s) ==
    IF p = "" THEN TRUE
    ELSE IF s = "" THEN FALSE
    ELSE IF ~AtomMatches(Head(p), Head(s)) THEN FALSE
    ELSE IF Len(p) >= 2 /\ CharAt(p, 2) = "+"
         THEN \/ MatchHere(p, Tail(s))
              \/ MatchHere(SubSeq(p, 3, Len(p)), Tail(s))
         ELSE MatchHere(Tail(p), Tail(s))

\* the alternatives of a pattern, split at `|`
RECURSIVE Alternatives(_)
Alternatives(p) ==
    IF \E i \in 1..Len(p) : CharAt(p, i) = "|"
    THEN LET i == CHOOSE j \in 1..Len(p) :
                      /\ CharAt(p, j) = "|"
                      /\ \A k \in 1..(j - 1) : CharAt(p, k) # "|"
         IN {SubSeq(p, 1, i - 1)} \cup Alternatives(SubSeq(p, i + 1, Len(p)))
    ELSE {p}

\* does the pattern match somewhere in s
RegexpMatch(expr, s) ==
    \E alt \in Alternatives(expr) :
        \E i \in 0..Len(s) : MatchHere(alt, SubSeq(s, i + 1, Len(s)))

\* the patterns and the strings of the model, matched once and for all
KnownPatterns == {"", "drop.+", "keep.+", ".+e", ".+e|foo.+", "SRV|AAAA", "A"}
KnownSubjects == {"drop.me", "foo.bar", "keep.me", "A", "AAAA"}
MatchCache == [e \in KnownPatterns |-> [s \in KnownSubjects |-> RegexpMatch(e, s)]]

\* re.MatchString(s)
MatchString(re, s) ==
    IF re.expr \in KnownPatterns /\ s \in KnownSubjects
    THEN MatchCache[re.expr][s]
    ELSE RegexpMatch(re.expr, s)

\* `re != nil && re.String() != ""`: the guard in front of every filter
FilterGivenNonNil(re) == ~re.nil

FilterGiven(re) == ~re.nil /\ re.expr # ""

-----------------------------------------------------------------------------
(* The values a dns.Record is made of.                                     *)

\* an interface{} value: a bool, an int or a string
GoBool(b) == [kind |-> "bool", bool |-> b, int |-> 0, str |-> ""]
GoInt(n) == [kind |-> "int", bool |-> FALSE, int |-> n, str |-> ""]
GoString(str) == [kind |-> "string", bool |-> FALSE, int |-> 0, str |-> str]

\* strconv.FormatBool, and %t
FormatBool(b) == IF b THEN "true" ELSE "false"

\* fmt's %v of an interface{} value
Sprint(v) ==
    CASE v.kind = "bool" -> FormatBool(v.bool)
      [] v.kind = "int" -> ToString(v.int)
      [] OTHER -> v.str

\* a *bool: nil, or a pointer to a value
NilBool == [nil |-> TRUE, value |-> FALSE]
BoolPtr(b) == [nil |-> FALSE, value |-> b]

\* a *data.Meta: nil, or a struct whose set fields are given by JSON tag
NilMeta == [nil |-> TRUE, fields |-> <<>>]
Meta(fields) == [nil |-> FALSE, fields |-> fields]

\* data.Regions, a map from region name to Region{Meta}: nil, or a map
NilRegions == [nil |-> TRUE, regions |-> <<>>]
Regions(m) == [nil |-> FALSE, regions |-> m]

\* (*data.Meta).StringMap: an entry for each set field, its value as text;
\* a bool becomes "1" or "0", which is how the package's tests find `up=1`
\* for Up: true (sd_test.go:153-156)
StringMap(meta) ==
    [k \in DOMAIN meta.fields |->
        LET v == meta.fields[k]
        IN IF v.kind = "bool"
           THEN GoString(IF v.bool THEN "1" ELSE "0")
           ELSE GoString(Sprint(v))]

\* the keys of the maps of the model, in the byte order of Go's `<`
SortedKeys == <<"MockBool", "MockInt", "priority", "up", "weight">>

\* a < b on strings
StringLess(a, b) ==
    LET At(x) == CHOOSE i \in DOMAIN SortedKeys : SortedKeys[i] = x
    IN At(a) < At(b)

\* sort.Strings: the strings in increasing order
RECURSIVE InsertSorted(_, _)
InsertSorted(sorted, x) ==
    IF sorted = <<>> THEN <<x>>
    ELSE IF StringLess(x, Head(sorted)) THEN <<x>> \o sorted
    ELSE <<Head(sorted)>> \o InsertSorted(Tail(sorted), x)

RECURSIVE SortStrings(_)
SortStrings(strs) ==
    IF strs = <<>> THEN <<>>
    ELSE InsertSorted(SortStrings(Tail(strs)), Head(strs))

\* the keys metadata and filter configurations use
MetaKeys == {"priority", "up", "weight"}
ConfigKeys == {"MockBool", "MockInt"}

\* how one run of the program iterates its maps: `range` visits the keys
\* of a map in the order they have in iter
KeyIterations == {m \o c : m \in Orders(MetaKeys), c \in Orders(ConfigKeys)}

\* the iteration used for the records of the account, whose maps hold at
\* most one key: every iteration visits them alike
AccountIteration == CHOOSE iter \in KeyIterations : TRUE

\* getMapKeys: the keys in the order `range m` visits them
getMapKeys(m, iter) == LET In(k) == k \in DOMAIN m IN SelectSeq(iter, In)

-----------------------------------------------------------------------------
(* The NS1 account the API answers from.  Which zones a listing returns    *)
(* and which calls fail is chosen anew on every call; the records of a     *)
(* zone are those of the repository's test fixtures.                       *)

\* the zones the account may hold, in the order the API lists them
ZoneOrder == <<"foo.bar", "keep.me", "drop.me">>
AllZones == Range(ZoneOrder)

\* a zone listing: the zones of Z in API order
Listing(Z) == LET In(z) == z \in Z IN SelectSeq(ZoneOrder, In)

\* dns.ZoneRecord as the zone detail call returns it
RawZoneRecord(d, t, ans) ==
    [Domain |-> d, ID |-> "id-" \o d \o "-" \o t, Link |-> "",
     ShortAns |-> ans, Tier |-> 1, TTL |-> 3600, Type |-> t]

\* the zone records of the account's zones
AccountRecords ==
    [z \in AllZones |->
        CASE z = "foo.bar" ->
                <<RawZoneRecord("test.foo.bar", "A", <<"1.2.3.4">>),
                  RawZoneRecord("test.foo.bar", "AAAA", <<"dead::beef">>)>>
          [] z = "keep.me" ->
                <<RawZoneRecord("test.keep.me", "A", <<"1.2.3.4">>)>>
          [] OTHER ->
                <<RawZoneRecord("test.drop.me", "A", <<"5.6.7.8">>)>>]

\* dns.Zone as Zones.Get(zone, true) returns it
RawZone(z) == [Zone |-> z, NetworkIDs |-> <<0>>, Records |-> AccountRecords[z]]

\* the full records of the account, by zone, domain and type
AccountRecordBodies ==
    [z \in AllZones |->
        [i \in DOMAIN AccountRecords[z] |->
            LET r == AccountRecords[z][i]
            IN [Zone |-> z, Domain |-> r.Domain, Type |-> r.Type,
                ID |-> r.ID, Link |-> r.Link, TTL |-> r.TTL,
                Answers |-> <<>>, Filters |-> <<>>, Meta |-> NilMeta,
                Regions |-> NilRegions,
                OverrideAddressRecords |-> NilBool, OverrideTTL |-> NilBool,
                UseClientSubnet |-> NilBool]]]

\* dns.Record as Records.Get(zone, domain, type) returns it
RawRecord(z, d, t) ==
    LET rs == AccountRecordBodies[z]
    IN rs[CHOOSE i \in DOMAIN rs : rs[i].Domain = d /\ rs[i].Type = t]

\* one provider API call, as logged in `calls`
Call(api, zone, domain, type, err) ==
    [api |-> api, zone |-> zone, domain |-> domain, type |-> type,
     start |-> "", err |-> err]

\* Activity.List with its `start` parameter
ActivityCall(start, err) ==
    [api |-> "Activity.List", zone |-> "", domain |-> "", type |-> "",
     start |-> start, err |-> err]

Issued(cs, api) == \E i \in DOMAIN cs : cs[i].api = api

NumFailed(cs) == Cardinality({i \in DOMAIN cs : cs[i].err})

-----------------------------------------------------------------------------
(* pkg/ns1: RefreshZoneData.                                               *)

\* ns1.Zone{}: the zero value
EmptyZone == [Zone |-> "", NetworkIDs |-> <<>>, Records |-> <<>>]

\* the trimmed ns1.ZoneRecord of a dns.ZoneRecord
TrimRecord(r) == [Domain |-> r.Domain, ShortAns |-> r.ShortAns, Type |-> r.Type]

TrimRecords(rs) == [i \in DOMAIN rs |-> TrimRecord(rs[i])]

\* the ns1.Zone built from a zone detail
TrimZone(z, raw) ==
    [Zone |-> z, NetworkIDs |-> raw.NetworkIDs, Records |-> TrimRecords(raw.Records)]

\* the blacklist pass: drop the zones the blacklist matches
BlacklistFilter(zones, zoneBlacklist) ==
    IF FilterGiven(zoneBlacklist)
    THEN LET Keep(z) == ~MatchString(zoneBlacklist, z) IN SelectSeq(zones, Keep)
    ELSE zones

\* the whitelist pass: keep only the zones the whitelist matches
WhitelistFilter(zones, zoneWhitelist) ==
    IF FilterGiven(zoneWhitelist)
    THEN LET Keep(z) == MatchString(zoneWhitelist, z) IN SelectSeq(zones, Keep)
    ELSE zones

\* the zones left after both passes, blacklist first
FilterZones(zones, zoneBlacklist, zoneWhitelist) ==
    WhitelistFilter(BlacklistFilter(zones, zoneBlacklist), zoneWhitelist)

\* the list failure path with the Inc() left out
ListFailedUncounted ==
    [zMap |-> <<>>, failures |-> 0,
     calls |-> <<Call("Zones.List", "", "", "", TRUE)>>]

\* Zones.List failed: the empty map, one Inc(), no further call
ListFailed ==
    [zMap |-> <<>>, failures |-> 1,
     calls |-> <<Call("Zones.List", "", "", "", TRUE)>>]

\* the detail loop with `return` for `continue`: it stops at the first
\* zone whose Zones.Get fails
ZoneDetailsAbort(zones, getErr) ==
    LET failing == {i \in DOMAIN zones : zones[i] \in getErr}
        last == IF failing = {} THEN Len(zones)
                ELSE CHOOSE i \in failing : \A j \in failing : i <= j
        done == SubSeq(zones, 1, last)
    IN [zMap |-> [z \in Range(done) \ getErr |-> TrimZone(z, RawZone(z))],
        failures |-> 0,
        calls |-> [i \in DOMAIN done |->
                      Call("Zones.Get", done[i], "", "", done[i] \in getErr)]]

\* getRecords: one Zones.Get per retained zone; a zone whose call fails is
\* logged and skipped (no Inc()), the others are trimmed and inserted
ZoneDetails(zones, getErr) ==
    [zMap |-> [z \in Range(zones) \ getErr |-> TrimZone(z, RawZone(z))],
     failures |-> 0,
     calls |-> [i \in DOMAIN zones |->
                   Call("Zones.Get", zones[i], "", "", zones[i] \in getErr)]]

\* the default case with the zone name filled in
ZoneNamesNamed(zones) ==
    [zMap |-> [z \in Range(zones) |-> [EmptyZone EXCEPT !.Zone = z]],
     failures |-> 0,
     calls |-> <<>>]

\* default: no detail call, &Zone{} under each retained zone's name
ZoneNames(zones) ==
    [zMap |-> [z \in Range(zones) |-> EmptyZone],
     failures |-> 0,
     calls |-> <<>>]

\* RefreshZoneData(c, getRecords, zoneBlacklist, zoneWhitelist).
\*   listErr: Zones.List fails; listed: the zones it returns otherwise;
\*   getErr: the zones whose Zones.Get fails.
\* The result: the map, the failure-counter increments and the calls made.
RefreshZoneData(listErr, listed, getRecords, zoneBlacklist, zoneWhitelist, getErr) ==
    IF listErr
    THEN ListFailed
    ELSE LET zones == FilterZones(listed, zoneBlacklist, zoneWhitelist)
             listCall == <<Call("Zones.List", "", "", "", FALSE)>>
             rest == IF getRecords THEN ZoneDetails(zones, getErr) ELSE ZoneNames(zones)
         IN [rest EXCEPT !.calls = listCall \o @]

-----------------------------------------------------------------------------
(* pkg/servicediscovery: the HTTP service-discovery worker.                *)

\* NewWorker: every cache nil, pollCount 0, the zero time
NewSDWorker(blacklist, whitelist, recordType) ==
    [ZoneBlacklist |-> blacklist,
     ZoneWhitelist |-> whitelist,
     RecordTypeWhitelist |-> recordType,
     zoneCache |-> <<>>,
     recordCache |-> NilSlice,
     targetCache |-> NilSlice,
     lastRefreshTimestamp |-> 0,
     pollCount |-> 0]

ns1Label == "__meta_ns1_"
ns1RecordLabelAnswers == ns1Label \o "record_answers"
ns1RecordLabelDomain == ns1Label \o "record_domain"
ns1RecordLabelFilters == ns1Label \o "record_filters"
ns1RecordLabelID == ns1Label \o "record_id"
ns1RecordLabelLink == ns1Label \o "record_link"
ns1RecordLabelMeta == ns1Label \o "record_meta"
ns1RecordLabelOverrideAddressRecords ==
    ns1Label \o "record_override_address_records_enabled"
ns1RecordLabelOverrideTTL == ns1Label \o "record_override_ttl_enabled"
ns1RecordLabelRegions == ns1Label \o "record_regions"
ns1RecordLabelTTL == ns1Label \o "record_ttl"
ns1RecordLabelType == ns1Label \o "record_type"
ns1RecordLabelUseClientSubnet == ns1Label \o "record_use_client_subnet_enabled"
ns1RecordLabelZone == ns1Label \o "record_zone"

\* the text a loop writes: the pieces one after the other
RECURSIVE Concat(_)
Concat(pieces) ==
    IF pieces = <<>> THEN "" ELSE Head(pieces) \o Concat(Tail(pieces))

\* the key loop of metaAsPrometheusMetaLabel without sort.Strings
metaLoopUnsorted(metaMap, innerDelim, iter) ==
    LET keys == getMapKeys(metaMap, iter)
    IN Concat([i \in DOMAIN keys |->
                  keys[i] \o "=" \o Sprint(metaMap[keys[i]]) \o innerDelim])

\* the key loop of metaAsPrometheusMetaLabel: key=value and the inner
\* delimiter for each key of the sorted key list
metaLoop(metaMap, innerDelim, iter) ==
    LET keys == SortStrings(getMapKeys(metaMap, iter))
    IN Concat([i \in DOMAIN keys |->
                  keys[i] \o "=" \o Sprint(metaMap[keys[i]]) \o innerDelim])

metaAsPrometheusMetaLabel(meta, innerDelim, outerDelim, iter) ==
    IF meta.nil
    THEN "meta[" \o innerDelim \o innerDelim \o "]" \o outerDelim
    ELSE LET metaMap == StringMap(meta)
         IN IF Cardinality(DOMAIN metaMap) = 0
            THEN "meta[" \o innerDelim \o innerDelim \o "]" \o outerDelim
            ELSE "meta[" \o innerDelim \o metaLoop(metaMap, innerDelim, iter)
                 \o "]" \o outerDelim

\* the loop of answerRdataAsPrometheuaMetaLabel
rdataLoop(rdata, innerDelim) ==
    Concat([i \in DOMAIN rdata |-> rdata[i] \o innerDelim])

answerRdataAsPrometheuaMetaLabel(rdata, innerDelim, outerDelim) ==
    IF Len(rdata) = 0
    THEN "rdata[" \o innerDelim \o innerDelim \o "]" \o outerDelim
    ELSE "rdata[" \o innerDelim \o rdataLoop(rdata, innerDelim) \o "]" \o outerDelim

\* a config block that took the keys as `range` gives them
filterConfigUnsorted(config, iter) ==
    IF config.nil \/ Cardinality(DOMAIN config.fields) = 0
    THEN "config[||];,"
    ELSE LET configKeys == getMapKeys(config.fields, iter)
         IN "config[|"
            \o Concat([i \in DOMAIN configKeys |->
                   configKeys[i] \o "=" \o Sprint(config.fields[configKeys[i]]) \o "|"])
            \o "];,"

\* the config block of one filter and the "," that ends the filter; a
\* filter.Config is a map, nil or not (modelled like a *data.Meta)
filterConfig(config, iter) ==
    IF config.nil \/ Cardinality(DOMAIN config.fields) = 0
    THEN "config[||];,"
    ELSE LET configKeys == SortStrings(getMapKeys(config.fields, iter))
         IN "config[|"
            \o Concat([i \in DOMAIN configKeys |->
                   configKeys[i] \o "=" \o Sprint(config.fields[configKeys[i]]) \o "|"])
            \o "];,"

recordFiltersAsPrometheusMetaLabel(filters, iter) ==
    IF Len(filters) = 0
    THEN ",,"
    ELSE "," \o Concat([i \in DOMAIN filters |->
                  ";type=" \o filters[i].Type \o ";"
                  \o "disabled=" \o FormatBool(filters[i].Disabled) \o ";"
                  \o filterConfig(filters[i].Config, iter)])

\* an answers label that began with the first answer
answersLabelNoLead(record, iter) ==
    Concat([i \in DOMAIN record.Answers |->
               LET answer == record.Answers[i]
               IN ";id=" \o answer.ID \o ";"
                  \o answerRdataAsPrometheuaMetaLabel(answer.Rdata, "|", ";")
                  \o metaAsPrometheusMetaLabel(answer.Meta, "|", ";", iter)
                  \o "region_name=" \o answer.RegionName \o ";"
                  \o ","])

\* the `answers` builder of recordAsPrometheusTarget
answersLabel(record, iter) ==
    "," \o Concat([i \in DOMAIN record.Answers |->
               LET answer == record.Answers[i]
               IN ";id=" \o answer.ID \o ";"
                  \o answerRdataAsPrometheuaMetaLabel(answer.Rdata, "|", ";")
                  \o metaAsPrometheusMetaLabel(answer.Meta, "|", ";", iter)
                  \o "region_name=" \o answer.RegionName \o ";"
                  \o ","])

\* the `regions` builder of recordAsPrometheusTarget: written in the
\* default case of the switch, in the order regionOrder visits the map,
\* and read by nothing
regionsBuilder(record, regionOrder, iter) ==
    "," \o Concat([i \in DOMAIN regionOrder |->
               regionOrder[i] \o "="
               \o metaAsPrometheusMetaLabel(record.Regions.regions[regionOrder[i]].Meta,
                                            ";", ",", iter)])

\* a regions label that took the text of the builder
recordRegionsMetaLabelBuilt(record, regionOrder, iter) ==
    IF record.Regions.nil THEN ",," ELSE regionsBuilder(record, regionOrder, iter)

\* recordRegionsMetaLabel: ",," in the nil case; the default case leaves
\* the variable at its zero value
recordRegionsMetaLabel(record, regionOrder, iter) ==
    IF record.Regions.nil THEN ",," ELSE ""

\* an override label that was "true" for every set field
overrideLabelIfSet(ptr) == IF ptr.nil THEN "false" ELSE "true"

\* overrideAddr, overrideTTL, useClientSubnet: "false", or FormatBool of
\* the value the field points to
overrideLabel(ptr) == IF ptr.nil THEN "false" ELSE FormatBool(ptr.value)

\* a target named by the domain alone
targetNameDomain(record) == record.Domain

\* fmt.Sprintf("%s-%s", record.Domain, record.Type)
targetName(record) == record.Domain \o "-" \o record.Type

\* recordAsPrometheusTarget.  iter: the order `range` visits map keys in;
\* regionOrder: the order it visits record.Regions in.
recordAsPrometheusTargetOf(record, regionOrder, iter) ==
    [Targets |-> <<targetName(record)>>,
     Labels |->
        (ns1RecordLabelAnswers :> answersLabel(record, iter)) @@
        (ns1RecordLabelDomain :> record.Domain) @@
        (ns1RecordLabelFilters :> recordFiltersAsPrometheusMetaLabel(record.Filters, iter)) @@
        (ns1RecordLabelID :> record.ID) @@
        (ns1RecordLabelLink :> record.Link) @@
        (ns1RecordLabelMeta :> "," \o metaAsPrometheusMetaLabel(record.Meta, ";", ",", iter)) @@
        (ns1RecordLabelOverrideAddressRecords :> overrideLabel(record.OverrideAddressRecords)) @@
        (ns1RecordLabelOverrideTTL :> overrideLabel(record.OverrideTTL)) @@
        (ns1RecordLabelRegions :> recordRegionsMetaLabel(record, regionOrder, iter)) @@
        (ns1RecordLabelTTL :> ToString(record.TTL)) @@
        (ns1RecordLabelType :> record.Type) @@
        (ns1RecordLabelUseClientSubnet :> overrideLabel(record.UseClientSubnet)) @@
        (ns1RecordLabelZone :> record.Zone)]

\* recordAsPrometheusTarget of a record of the account: no region map, no
\* map of two keys
recordAsPrometheusTarget(record) ==
    recordAsPrometheusTargetOf(record, <<>>, AccountIteration)

\* RefreshPrometheusTargetData: `var data`, one append per cached record
RefreshPrometheusTargetData(w) ==
    LET rc == w.recordCache.elems
        data == IF Len(rc) = 0
                THEN NilSlice
                ELSE MakeSlice([i \in DOMAIN rc |-> recordAsPrometheusTarget(rc[i])])
    IN [w EXCEPT !.targetCache = data]

\* a RefreshRecordData that fetched every zone record whatever the whitelist
FilterRecordTypesOff(w, records) == records

\* the zone records RefreshRecordData keeps for a zone
FilterRecordTypes(w, records) ==
    IF FilterGiven(w.RecordTypeWhitelist)
    THEN LET Keep(r) == MatchString(w.RecordTypeWhitelist, r.Type)
         IN SelectSeq(records, Keep)
    ELSE records

\* the key of a record detail call
RecordKey(zone, r) == <<zone, r.Domain, r.Type>>

\* the record detail calls RefreshRecordData makes, in order, zone by zone
RECURSIVE RecordGets(_, _, _)
RecordGets(w, order, recErr) ==
    IF order = <<>> THEN <<>>
    ELSE LET zData == w.zoneCache[Head(order)]
             rs == FilterRecordTypes(w, zData.Records)
         IN [i \in DOMAIN rs |->
                Call("Records.Get", zData.Zone, rs[i].Domain, rs[i].Type,
                     RecordKey(zData.Zone, rs[i]) \in recErr)]
            \o RecordGets(w, Tail(order), recErr)

\* what RefreshRecordData leaves in the zone cache: with a whitelist given,
\* each zone's record list is overwritten through the *Zone (sd.go:258)
ZoneCacheAfterRecordRefresh(w) ==
    [z \in DOMAIN w.zoneCache |->
        [w.zoneCache[z] EXCEPT !.Records = FilterRecordTypes(w, @)]]

\* a RefreshRecordData that starts from an empty slice instead of a nil one
RefreshRecordDataFromEmpty(w, order, recErr) ==
    LET gets == RecordGets(w, order, recErr)
        Ok(c) == ~c.err
        fetched == SelectSeq(gets, Ok)
        records == MakeSlice([i \in DOMAIN fetched |->
                      RawRecord(fetched[i].zone, fetched[i].domain, fetched[i].type)])
    IN [w |-> [w EXCEPT !.zoneCache = ZoneCacheAfterRecordRefresh(w),
                        !.recordCache = records],
        failures |-> NumFailed(gets),
        calls |-> gets]

\* RefreshRecordData.  order: the order `range w.zoneCache` visits the zones;
\* recErr: the keys of the record detail calls that fail.
RefreshRecordData(w, order, recErr) ==
    LET gets == RecordGets(w, order, recErr)
        Ok(c) == ~c.err
        fetched == SelectSeq(gets, Ok)
        records == IF Len(fetched) = 0
                   THEN NilSlice
                   ELSE MakeSlice([i \in DOMAIN fetched |->
                            RawRecord(fetched[i].zone, fetched[i].domain, fetched[i].type)])
    IN [w |-> [w EXCEPT !.zoneCache = ZoneCacheAfterRecordRefresh(w),
                        !.recordCache = records],
        failures |-> NumFailed(gets),
        calls |-> gets]

\* the record detail calls a pass over zone cache zc would make
RecordKeysOf(w, zc) ==
    UNION {{RecordKey(zc[z].Zone, r) : r \in Range(FilterRecordTypes(w, zc[z].Records))}
           : z \in DOMAIN zc}

\* SD Worker.RefreshZoneData: getRecords is always true
SDRefreshZoneData(w, listErr, listed, getErr) ==
    RefreshZoneData(listErr, listed, TRUE, w.ZoneBlacklist, w.ZoneWhitelist, getErr)

\* a RefreshData that builds the targets before it fetches the records
RefreshDataTargetsFirst(w, listErr, listed, getErr, order, recErr) ==
    LET zd == SDRefreshZoneData(w, listErr, listed, getErr)
        w1 == [w EXCEPT !.zoneCache = zd.zMap]
        w2 == RefreshPrometheusTargetData(w1)
        rd == RefreshRecordData(w2, order, recErr)
    IN [w |-> rd.w,
        failures |-> zd.failures + rd.failures,
        calls |-> zd.calls \o rd.calls]

\* RefreshData: zones, then records, then targets
RefreshData(w, listErr, listed, getErr, order, recErr) ==
    LET zd == SDRefreshZoneData(w, listErr, listed, getErr)
        w1 == [w EXCEPT !.zoneCache = zd.zMap]
        rd == RefreshRecordData(w1, order, recErr)
        w2 == RefreshPrometheusTargetData(rd.w)
    IN [w |-> w2,
        failures |-> zd.failures + rd.failures,
        calls |-> zd.calls \o rd.calls]

-----------------------------------------------------------------------------
(* SD Worker.Refresh: the activity-aware refresh decision.                 *)

\* the resource types whose activity can affect zones and records
RelevantResourceTypes ==
    {"dns_zone", "record", "notify_list", "datasource", "datafeed", "job"}

\* the poll on which a refresh is forced
PollLimit == 10

\* what Activity.List may return: the resource types of the entries
ActivityResults ==
    {<<>>, <<"user">>, <<"user", "record">>}
        \cup {<<t>> : t \in RelevantResourceTypes}

\* the answers of the activity query: entries, or a failure with none
\* (the client library returns no entries together with an error)
ActivityAnswers ==
    {[err |-> FALSE, activity |-> a] : a \in ActivityResults}
        \cup {[err |-> TRUE, activity |-> <<>>]}

\* FilterActivity without the "job" case of the switch
FilterActivityNoJob(activity) ==
    LET Relevant(t) == t \in RelevantResourceTypes \ {"job"}
    IN SelectSeq(activity, Relevant)

\* the entries of a relevant resource type
FilterActivity(activity) ==
    LET Relevant(t) == t \in RelevantResourceTypes IN SelectSeq(activity, Relevant)

\* NeedsRefresh without the filter: any activity forces the refresh
NeedsRefreshUnfiltered(activity, pollCount) ==
    IF Len(activity) = 0 THEN ~(pollCount < PollLimit) ELSE TRUE

\* NeedsRefresh with `<=` for `<`: the forced refresh comes a poll late
NeedsRefreshLate(activity, pollCount) ==
    IF Len(activity) = 0
    THEN ~(pollCount <= PollLimit)
    ELSE ~(Len(FilterActivity(activity)) = 0 /\ pollCount <= PollLimit)

\* needsRefresh after the poll, pollCount already incremented
NeedsRefresh(activity, pollCount) ==
    IF Len(activity) = 0
    THEN ~(pollCount < PollLimit)
    ELSE ~(Len(FilterActivity(activity)) = 0 /\ pollCount < PollLimit)

\* Polls without the `recordCache != nil` test
PollsAlways(w) == TRUE

\* does Refresh poll for activity: only with data already cached
Polls(w) == ~w.recordCache.nil

\* the worker after the poll: pollCount++ when there was a cache to poll for
AfterPoll(w) ==
    IF Polls(w) THEN [w EXCEPT !.pollCount = @ + 1] ELSE w

\* the clock counts ticks of which TicksPerSecond make a second
TicksPerSecond == 2

\* (time.Time).Unix(): the whole seconds of a time
Unix(t) == t \div TicksPerSecond

\* FinishRefresh stamping the time after a full refresh only
FinishRefreshOnFull(w, refreshed, ts) ==
    [w EXCEPT !.pollCount = IF refreshed THEN 0 ELSE @,
              !.lastRefreshTimestamp = IF refreshed THEN ts ELSE @]

\* FinishRefresh leaving the poll count as it is
FinishRefreshKeepCount(w, refreshed, ts) ==
    [w EXCEPT !.lastRefreshTimestamp = ts]

\* FinishRefresh stamping a second after the time the call started with
FinishRefreshLate(w, refreshed, ts) ==
    [w EXCEPT !.pollCount = IF refreshed THEN 0 ELSE @,
              !.lastRefreshTimestamp = ts + TicksPerSecond]

\* the end of Refresh: reset pollCount after a full refresh, stamp the time
FinishRefresh(w, refreshed, ts) ==
    [w EXCEPT !.pollCount = IF refreshed THEN 0 ELSE @,
              !.lastRefreshTimestamp = ts]

\* the resource types the specification counts as relevant (spec.md 4.4,
\* step 5); lastCall records whether the poll returned an entry of one
NamedRelevant(activity) ==
    \E i \in DOMAIN activity :
        activity[i] \in {"dns_zone", "record", "notify_list",
                         "datasource", "datafeed", "job"}

\* the outcomes of a Refresh that gives up on a failed activity query
PollOutcomesOfGivingUp(w, answers) ==
    IF Polls(w)
    THEN {[polled |-> TRUE, err |-> a.err,
           any |-> Len(a.activity) > 0,
           relevant |-> NamedRelevant(a.activity),
           needsRefresh |-> ~a.err /\ NeedsRefresh(a.activity, AfterPoll(w).pollCount)]
          : a \in answers}
    ELSE {[polled |-> FALSE, err |-> FALSE, any |-> FALSE, relevant |-> FALSE,
           needsRefresh |-> TRUE]}

\* the ways the first half of Refresh can go: whether it polled, whether
\* the poll failed, what it returned, and the decision taken
PollOutcomesOf(w, answers) ==
    IF Polls(w)
    THEN {[polled |-> TRUE, err |-> a.err,
           any |-> Len(a.activity) > 0,
           relevant |-> NamedRelevant(a.activity),
           needsRefresh |-> NeedsRefresh(a.activity, AfterPoll(w).pollCount)]
          : a \in answers}
    ELSE {[polled |-> FALSE, err |-> FALSE, any |-> FALSE, relevant |-> FALSE,
           needsRefresh |-> TRUE]}

\* the same against a provider that may answer anything
PollOutcomes(w) == PollOutcomesOf(w, ActivityAnswers)

\* the activity query: start = strconv.FormatInt(lastRefreshTimestamp.Unix(), 10)
PollCalls(w, p) ==
    IF p.polled
    THEN <<ActivityCall(ToString(Unix(w.lastRefreshTimestamp)), p.err)>>
    ELSE <<>>

\* lastCall: the operation; for an SD Refresh, whether it polled, how many
\* polls that makes since the last full refresh, whether the poll returned
\* any entry and any entry of a relevant type, the zone listing a full
\* refresh was given and the time the call read at its start; for an
\* exporter Refresh, the QPS strategy it ran
NoCall(op) == [op |-> op, polled |-> FALSE, poll |-> 0, any |-> FALSE,
               relevant |-> FALSE, strategy |-> "", listed |-> <<>>, ts |-> 0]

NoResponse == [status |-> 0, contentType |-> "", body |-> ""]

\* the zones the account of the service-discovery runs may hold
AccountZones == Range(SubSeq(ZoneOrder, 1, MaxZones))

\* the provider's answers to a pass: any of them (failures and partial
\* listings included), or the account as it is with every call succeeding
ListErrs(mayFail) == IF mayFail THEN BOOLEAN ELSE {FALSE}
Listings(mayFail, listErr) ==
    IF listErr THEN {{}}
    ELSE IF mayFail THEN SUBSET AccountZones ELSE {AccountZones}
Failing(mayFail, S) == IF mayFail THEN SUBSET S ELSE {{}}

\* Worker.Refresh, given the ways its activity poll can go, against a
\* provider whose zone and record calls may fail or not
SDRefreshCall(outcomes, mayFail) ==
    /\ \E p \in outcomes :
         LET ts == now
             poll == PollCalls(sdWorker, p)
             w1 == AfterPoll(sdWorker)
             call == [NoCall("sd.Refresh") EXCEPT
                        !.ts = ts,
                        !.polled = p.polled,
                        !.poll = IF p.polled THEN sdWorker.pollCount + 1 ELSE 0,
                        !.any = p.any,
                        !.relevant = p.relevant]
         IN IF ~p.needsRefresh
            THEN /\ apiFailures + NumFailed(poll) <= MaxFailures
                 /\ sdWorker' = FinishRefresh(w1, FALSE, ts)
                 /\ apiFailures' = apiFailures + NumFailed(poll)
                 /\ calls' = poll
                 /\ lastCall' = call
                 /\ sdSkips' = sdSkips + 1
            ELSE \E listErr \in ListErrs(mayFail) :
                 \E Z \in Listings(mayFail, listErr) :
                   LET kept == Range(FilterZones(Listing(Z), w1.ZoneBlacklist,
                                                 w1.ZoneWhitelist))
                   IN \E getErr \in Failing(mayFail, kept) :
                        LET zc == SDRefreshZoneData(w1, listErr, Listing(Z), getErr).zMap
                        IN \E order \in Orders(DOMAIN zc) :
                           \E recErr \in Failing(mayFail, RecordKeysOf(w1, zc)) :
                             LET rd == RefreshData(w1, listErr, Listing(Z), getErr,
                                                   order, recErr)
                                 failures == NumFailed(poll) + rd.failures
                             IN /\ apiFailures + failures <= MaxFailures
                                /\ sdWorker' = FinishRefresh(rd.w, TRUE, ts)
                                /\ apiFailures' = apiFailures + failures
                                /\ calls' = poll \o rd.calls
                                /\ lastCall' = [call EXCEPT !.listed = Listing(Z)]
                                /\ sdSkips' = 0
    /\ response' = NoResponse
    /\ ch' = <<>>
    /\ UNCHANGED <<exporterWorker, zdIn, zdOut, race>>

\* Worker.Refresh against a provider that may fail or not, no time passing
SDRefreshPass(mayFail) ==
    /\ SDRefreshCall({q \in PollOutcomes(sdWorker) : mayFail \/ ~q.err}, mayFail)
    /\ UNCHANGED <<now, activityLog>>

\* Worker.Refresh
SDRefresh == SDRefreshPass(TRUE) /\ UNCHANGED group

-----------------------------------------------------------------------------
(* SD Worker.ServeHTTP: json.MarshalIndent(w.targetCache, "", "    ").     *)

\* the label names, in the (sorted) order encoding/json writes map keys
LabelOrder ==
    <<ns1RecordLabelAnswers, ns1RecordLabelDomain, ns1RecordLabelFilters,
      ns1RecordLabelID, ns1RecordLabelLink, ns1RecordLabelMeta,
      ns1RecordLabelOverrideAddressRecords, ns1RecordLabelOverrideTTL,
      ns1RecordLabelRegions, ns1RecordLabelTTL, ns1RecordLabelType,
      ns1RecordLabelUseClientSubnet, ns1RecordLabelZone>>

JSONString(str) == "\"" \o str \o "\""

\* the items, each on its own line at the given indent, comma separated
RECURSIVE JSONLines(_, _)
JSONLines(items, indent) ==
    IF Len(items) = 0 THEN ""
    ELSE indent \o Head(items)
         \o (IF Len(items) > 1 THEN ",\n" ELSE "\n")
         \o JSONLines(Tail(items), indent)

\* a []string; Targets always holds one element
JSONStringList(strs, indent) ==
    IF Len(strs) = 0 THEN "[]"
    ELSE "[\n" \o JSONLines([i \in DOMAIN strs |-> JSONString(strs[i])],
                            indent \o "    ")
         \o indent \o "]"

\* a LabelSet: a JSON object, keys sorted
JSONLabels(labels, indent) ==
    LET Has(k) == k \in DOMAIN labels
        keys == SelectSeq(LabelOrder, Has)
    IN IF Len(keys) = 0 THEN "{}"
       ELSE "{\n" \o JSONLines([i \in DOMAIN keys |->
                                   JSONString(keys[i]) \o ": " \o JSONString(labels[keys[i]])],
                               indent \o "    ")
            \o indent \o "}"

\* one *HTTPSDTarget
JSONTarget(t, indent) ==
    "{\n" \o JSONLines(<<"\"targets\": " \o JSONStringList(t.Targets, indent \o "    "),
                         "\"labels\": " \o JSONLabels(t.Labels, indent \o "    ")>>,
                       indent \o "    ")
    \o indent \o "}"

\* json.MarshalIndent of the target cache: a nil slice is `null`, an empty
\* one `[]`
MarshalIndent(targetCache) ==
    IF targetCache.nil THEN "null"
    ELSE IF Len(targetCache.elems) = 0 THEN "[]"
    ELSE "[\n" \o JSONLines([i \in DOMAIN targetCache.elems |->
                                JSONTarget(targetCache.elems[i], "    ")], "    ")
         \o "]"

\* ServeHTTP: marshalling a []*HTTPSDTarget of strings cannot fail, so the
\* 500 path is never taken
\* a handler that counted each request as a poll of the worker
ServeHTTPCallPolling ==
    /\ response' = [status |-> 200,
                    contentType |-> "application/json; charset=utf-8",
                    body |-> MarshalIndent(sdWorker.targetCache)]
    /\ calls' = <<>>
    /\ lastCall' = NoCall("ServeHTTP")
    /\ ch' = <<>>
    /\ sdWorker' = [sdWorker EXCEPT !.pollCount = (@ + 1) % PollLimit]
    /\ UNCHANGED <<exporterWorker, apiFailures, now, sdSkips,
                   zdIn, zdOut, race, activityLog>>

ServeHTTPCall ==
    /\ response' = [status |-> 200,
                    contentType |-> "application/json; charset=utf-8",
                    body |-> MarshalIndent(sdWorker.targetCache)]
    /\ calls' = <<>>
    /\ lastCall' = NoCall("ServeHTTP")
    /\ ch' = <<>>
    /\ UNCHANGED <<sdWorker, exporterWorker, apiFailures, now, sdSkips,
                   zdIn, zdOut, race, activityLog>>

ServeHTTP == ServeHTTPCall /\ UNCHANGED group

-----------------------------------------------------------------------------
(* The service-discovery worker on its own: refresh passes and requests,   *)
(* in any order.                                                           *)

NoWorker == [none |-> TRUE]

\* no process around the workers
NoGroup == [none |-> TRUE]

InitSD ==
    /\ \E recordType \in {NilRegexp, Regexp("SRV|AAAA")} :
         sdWorker = NewSDWorker(Regexp("drop.+"), Regexp(".+e|foo.+"), recordType)
    /\ exporterWorker = NoWorker
    /\ apiFailures = 0
    /\ now = 1
    /\ calls = <<>>
    /\ lastCall = NoCall("none")
    /\ sdSkips = 0
    /\ response = NoResponse
    /\ ch = <<>>
    /\ zdIn = <<>>
    /\ zdOut = <<>>
    /\ race = <<>>
    /\ activityLog = {}
    /\ group = NoGroup

NextSD == SDRefresh \/ ServeHTTP

SpecSD == InitSD /\ [][NextSD]_vars

-----------------------------------------------------------------------------
(* Properties of the service-discovery worker.                             *)

\* the step is a call of SD Worker.Refresh
SDRefreshed == lastCall'.op = "sd.Refresh"

\* the last operation ran RefreshData: it listed the zones
FullRefresh(cs) == Issued(cs, "Zones.List")

SDCachesUnchanged ==
    /\ sdWorker'.zoneCache = sdWorker.zoneCache
    /\ sdWorker'.recordCache = sdWorker.recordCache
    /\ sdWorker'.targetCache = sdWorker.targetCache

\* C1: a Refresh call that starts with an empty record cache performs a
\* full data refresh without querying the account activity, and pollCount
\* is 0 when it returns.
C1_EmptyCacheAlwaysRefreshes ==
    [][(SDRefreshed /\ Len(sdWorker.recordCache.elems) = 0)
        => /\ FullRefresh(calls')
           /\ ~Issued(calls', "Activity.List")
           /\ sdWorker'.pollCount = 0]_vars

\* a first Refresh that fetched records
C1_Witness ==
    /\ lastCall.op = "sd.Refresh"
    /\ ~lastCall.polled
    /\ FullRefresh(calls)
    /\ Len(sdWorker.recordCache.elems) > 0

\* C2: a Refresh call with a non-empty record cache whose poll returns no
\* entry of a relevant type, and whose pollCount after the increment is
\* below 10, performs no full refresh and leaves the zone cache, the record
\* cache and the target cache unchanged.
C2_SkipLeavesCaches ==
    [][(/\ SDRefreshed
        /\ Len(sdWorker.recordCache.elems) > 0
        /\ ~lastCall'.relevant
        /\ sdWorker.pollCount + 1 < 10)
        => /\ ~FullRefresh(calls')
           /\ Issued(calls', "Activity.List")
           /\ SDCachesUnchanged]_vars

\* a skipped refresh on a poll that returned only irrelevant entries
C2_Witness ==
    /\ lastCall.op = "sd.Refresh"
    /\ lastCall.polled /\ lastCall.any /\ ~lastCall.relevant
    /\ ~FullRefresh(calls)
    /\ sdWorker.pollCount \in 1..9
    /\ Len(sdWorker.targetCache.elems) > 0

\* C3: with a non-empty record cache, a poll that sees no relevant activity
\* skips the full refresh when it is the 1st to 9th poll in a row, the 10th
\* poll in a row performs the full refresh whatever it sees and resets
\* pollCount to 0, and there are never 10 Refresh calls in a row without a
\* full refresh.
C3_Failsafe ==
    [][SDRefreshed
        => /\ sdSkips' <= 9
           /\ (lastCall'.polled /\ ~lastCall'.relevant /\ sdSkips < 9)
                => (~FullRefresh(calls') /\ sdSkips' = sdSkips + 1)
           /\ sdSkips = 9
                => (FullRefresh(calls') /\ sdWorker'.pollCount = 0 /\ sdSkips' = 0)]_vars

\* the forced refresh: the 10th poll saw nothing relevant and refreshed
C3_Witness ==
    /\ lastCall.op = "sd.Refresh"
    /\ lastCall.polled /\ ~lastCall.relevant
    /\ lastCall.poll = 10
    /\ FullRefresh(calls)
    /\ sdWorker.pollCount = 0

\* C4: with a non-empty record cache, a poll that returns an entry of type
\* dns_zone, record, notify_list, datasource, datafeed or job is followed
\* by a full refresh and pollCount 0, whatever pollCount was; a poll that
\* returns only entries of other types is handled as one that returns
\* none (no refresh below the 10th poll).
C4_RelevantActivityRefreshes ==
    [][(SDRefreshed /\ Len(sdWorker.recordCache.elems) > 0)
        => /\ lastCall'.relevant
                => (FullRefresh(calls') /\ sdWorker'.pollCount = 0)
           /\ (lastCall'.any /\ ~lastCall'.relevant /\ sdWorker.pollCount + 1 < 10)
                => (~FullRefresh(calls') /\ sdWorker'.pollCount = sdWorker.pollCount + 1)]_vars

\* relevant activity seen on a later poll (pollCount was not 0)
C4_Witness ==
    /\ lastCall.op = "sd.Refresh"
    /\ lastCall.polled /\ lastCall.relevant
    /\ lastCall.poll > 1
    /\ FullRefresh(calls)
    /\ sdWorker.pollCount = 0

\* C6: a refresh pass whose zone listing fails leaves the target cache as
\* it was (the endpoint keeps serving the last snapshot built): a
\* non-empty target cache is not replaced by an empty or a shorter one.
C6_LastKnownGood ==
    [][(/\ SDRefreshed
        /\ \E i \in DOMAIN calls' : calls'[i].api = "Zones.List" /\ calls'[i].err)
        => Len(sdWorker'.targetCache.elems) >= Len(sdWorker.targetCache.elems)]_vars

\* C7: whenever ServeHTTP answers with a target cache that holds no
\* targets, the status is 200 and the body is exactly [].
C7_EmptyCacheServesEmptyList ==
    (lastCall.op = "ServeHTTP" /\ Len(sdWorker.targetCache.elems) = 0)
        => (response.status = 200 /\ response.body = "[]")

-----------------------------------------------------------------------------
(* pkg/exporter: the metrics worker.                                       *)

\* NewWorker: both caches start as nil
NewWorker(zoneEnabled, recordEnabled, blacklist, whitelist) ==
    [EnableZoneQPS |-> zoneEnabled,
     EnableRecordQPS |-> recordEnabled,
     ZoneBlacklist |-> blacklist,
     ZoneWhitelist |-> whitelist,
     zoneCache |-> <<>>,
     qpsCache |-> NilSlice]

\* ns1.QPS
QPS(value, zone, domain, type) ==
    [Value |-> value, ZoneName |-> zone, RecordName |-> domain, RecordType |-> type]

\* the rate the provider reports for a record, a zone ("" for the record)
\* or the account ("" for the zone); a failed call returns 0
RecordRate(type) == IF type = "AAAA" THEN 1 ELSE 2

RECURSIVE SumRates(_)
SumRates(rs) == IF rs = <<>> THEN 0 ELSE RecordRate(Head(rs).Type) + SumRates(Tail(rs))

ZoneRate(z) == SumRates(AccountRecords[z])

RECURSIVE AccountRate(_)
AccountRate(zs) == IF zs = <<>> THEN 0 ELSE ZoneRate(Head(zs)) + AccountRate(Tail(zs))

ProviderQPS(zone, domain, type, err) ==
    IF err THEN 0
    ELSE IF zone = "" THEN AccountRate(SubSeq(ZoneOrder, 1, MaxZones))
    ELSE IF domain = "" THEN ZoneRate(zone)
    ELSE RecordRate(type)

\* exporter Worker.RefreshZoneData: records are wanted for zone- and
\* record-level QPS
ExporterRefreshZoneData(w, listErr, listed, getErr) ==
    LET getRecords == w.EnableRecordQPS \/ w.EnableZoneQPS
    IN RefreshZoneData(listErr, listed, getRecords, w.ZoneBlacklist, w.ZoneWhitelist, getErr)

\* RefreshQPSAccountData: one Stats.GetQPS call, one entry whatever it returns
RefreshQPSAccountData(w, qpsErr) ==
    LET err == <<"", "", "">> \in qpsErr
        cache == MakeSlice(<<QPS(ProviderQPS("", "", "", err), "", "", "")>>)
    IN [w |-> [w EXCEPT !.qpsCache = cache],
        failures |-> IF err THEN 1 ELSE 0,
        calls |-> <<Call("Stats.GetQPS", "", "", "", err)>>,
        strategy |-> "account"]

\* the entries a pass appends for its calls, in order; none leaves nil
QPSEntries(cs) ==
    IF Len(cs) = 0 THEN NilSlice
    ELSE MakeSlice([i \in DOMAIN cs |->
            QPS(ProviderQPS(cs[i].zone, cs[i].domain, cs[i].type, cs[i].err),
                cs[i].zone, cs[i].domain, cs[i].type)])

\* RefreshQPSZoneData: one Stats.GetZoneQPS call per key of the zone cache,
\* in the order `range w.zoneCache` visits them
RefreshQPSZoneData(w, order, qpsErr) ==
    LET cs == [i \in DOMAIN order |->
                 Call("Stats.GetZoneQPS", order[i], "", "", <<order[i], "", "">> \in qpsErr)]
    IN [w |-> [w EXCEPT !.qpsCache = QPSEntries(cs)],
        failures |-> NumFailed(cs),
        calls |-> cs,
        strategy |-> "zone"]

\* the Stats.GetRecordQPS calls of RefreshQPSRecordData: zone by zone, and
\* each zone's records in their order
RECURSIVE RecordQPSCalls(_, _, _)
RecordQPSCalls(w, order, qpsErr) ==
    IF order = <<>> THEN <<>>
    ELSE LET zName == Head(order)
             rs == w.zoneCache[zName].Records
         IN [i \in DOMAIN rs |->
                Call("Stats.GetRecordQPS", zName, rs[i].Domain, rs[i].Type,
                     <<zName, rs[i].Domain, rs[i].Type>> \in qpsErr)]
            \o RecordQPSCalls(w, Tail(order), qpsErr)

\* RefreshQPSRecordData with a failed call dropped instead of appended
RefreshQPSRecordDataSkipFailed(w, order, qpsErr) ==
    LET cs == RecordQPSCalls(w, order, qpsErr)
        Ok(c) == ~c.err
    IN [w |-> [w EXCEPT !.qpsCache = QPSEntries(SelectSeq(cs, Ok))],
        failures |-> NumFailed(cs),
        calls |-> cs,
        strategy |-> "record"]

RefreshQPSRecordData(w, order, qpsErr) ==
    LET cs == RecordQPSCalls(w, order, qpsErr)
    IN [w |-> [w EXCEPT !.qpsCache = QPSEntries(cs)],
        failures |-> NumFailed(cs),
        calls |-> cs,
        strategy |-> "record"]

\* RefreshQPSData with the two tests in the other order
RefreshQPSDataZoneFirst(w, order, qpsErr) ==
    IF w.EnableZoneQPS THEN RefreshQPSZoneData(w, order, qpsErr)
    ELSE IF w.EnableRecordQPS THEN RefreshQPSRecordData(w, order, qpsErr)
    ELSE RefreshQPSAccountData(w, qpsErr)

\* RefreshQPSData: record level before zone level before account level
RefreshQPSData(w, order, qpsErr) ==
    IF w.EnableRecordQPS THEN RefreshQPSRecordData(w, order, qpsErr)
    ELSE IF w.EnableZoneQPS THEN RefreshQPSZoneData(w, order, qpsErr)
    ELSE RefreshQPSAccountData(w, qpsErr)

\* the keys of the calls a QPS pass over zone cache zc makes
QPSKeysOf(w, zc) ==
    IF w.EnableRecordQPS
    THEN UNION {{<<z, r.Domain, r.Type>> : r \in Range(zc[z].Records)} : z \in DOMAIN zc}
    ELSE IF w.EnableZoneQPS
    THEN {<<z, "", "">> : z \in DOMAIN zc}
    ELSE {<<"", "", "">>}

\* exporter Worker.Refresh: the zone data, then the QPS data
ExporterRefreshData(w, listErr, listed, getErr, order, qpsErr) ==
    LET zd == ExporterRefreshZoneData(w, listErr, listed, getErr)
        qd == RefreshQPSData([w EXCEPT !.zoneCache = zd.zMap], order, qpsErr)
    IN [w |-> qd.w,
        failures |-> zd.failures + qd.failures,
        calls |-> zd.calls \o qd.calls,
        strategy |-> qd.strategy]

\* exporter Worker.Refresh against a provider that may fail or not
ExporterRefreshPass(mayFail) ==
    /\ \E listErr \in ListErrs(mayFail) :
       \E Z \in Listings(mayFail, listErr) :
         LET w == exporterWorker
             kept == Range(FilterZones(Listing(Z), w.ZoneBlacklist, w.ZoneWhitelist))
         IN \E getErr \in (IF w.EnableRecordQPS \/ w.EnableZoneQPS
                           THEN Failing(mayFail, kept) ELSE {{}}) :
              LET zc == ExporterRefreshZoneData(w, listErr, Listing(Z), getErr).zMap
              IN \E order \in Orders(DOMAIN zc) :
                 \E qpsErr \in Failing(mayFail, QPSKeysOf(w, zc)) :
                   LET rd == ExporterRefreshData(w, listErr, Listing(Z), getErr, order, qpsErr)
                   IN /\ apiFailures + rd.failures <= MaxFailures
                      /\ exporterWorker' = rd.w
                      /\ apiFailures' = apiFailures + rd.failures
                      /\ calls' = rd.calls
                      /\ lastCall' = [NoCall("exporter.Refresh") EXCEPT
                                        !.strategy = rd.strategy]
    /\ response' = NoResponse
    /\ ch' = <<>>
    /\ UNCHANGED <<sdWorker, now, sdSkips, zdIn, zdOut, race, activityLog>>

ExporterRefresh == ExporterRefreshPass(TRUE) /\ UNCHANGED group

\* the build info metric Collect writes first
BuildInfo == [desc |-> "ns1_build_info", value |-> 1, labels |-> <<>>]

\* QPSMetric with the record name and the record type exchanged
QPSMetricSwapped(qps) ==
    [desc |-> "ns1_stats_queries_per_second", value |-> qps.Value,
     labels |-> <<qps.ZoneName, qps.RecordType, qps.RecordName>>]

\* the gauge of one QPS cache entry
QPSMetric(qps) ==
    [desc |-> "ns1_stats_queries_per_second", value |-> qps.Value,
     labels |-> <<qps.ZoneName, qps.RecordName, qps.RecordType>>]

\* Collect: the build info, then one gauge per QPS cache entry
CollectCall ==
    /\ ch' = <<BuildInfo>> \o
             [i \in DOMAIN exporterWorker.qpsCache.elems |->
                 QPSMetric(exporterWorker.qpsCache.elems[i])]
    /\ calls' = <<>>
    /\ lastCall' = NoCall("Collect")
    /\ response' = NoResponse
    /\ UNCHANGED <<sdWorker, exporterWorker, apiFailures, now, sdSkips,
                   zdIn, zdOut, race, activityLog>>

Collect == CollectCall /\ UNCHANGED group

-----------------------------------------------------------------------------
(* The metrics worker on its own, under each setting of the two QPS flags. *)

NoSDWorker == [none |-> TRUE]

InitExporter ==
    /\ \E zoneEnabled \in BOOLEAN, recordEnabled \in BOOLEAN :
         exporterWorker = NewWorker(zoneEnabled, recordEnabled, Regexp("drop.+"), NilRegexp)
    /\ sdWorker = NoSDWorker
    /\ apiFailures = 0
    /\ now = 1
    /\ calls = <<>>
    /\ lastCall = NoCall("none")
    /\ sdSkips = 0
    /\ response = NoResponse
    /\ ch = <<>>
    /\ zdIn = <<>>
    /\ zdOut = <<>>
    /\ race = <<>>
    /\ activityLog = {}
    /\ group = NoGroup

NextExporter == ExporterRefresh \/ Collect

SpecExporter == InitExporter /\ [][NextExporter]_vars

-----------------------------------------------------------------------------
(* Properties of the metrics worker.                                       *)

\* the step is a call of exporter Worker.Refresh
ExporterRefreshed == lastCall'.op = "exporter.Refresh"

\* the QPS calls among the calls of a pass, in order
StatsCalls(cs) ==
    LET IsStats(c) == c.api \in {"Stats.GetQPS", "Stats.GetZoneQPS", "Stats.GetRecordQPS"}
    IN SelectSeq(cs, IsStats)

\* the one QPS call a configuration may issue
StatsCallOf(w) ==
    IF w.EnableRecordQPS THEN "Stats.GetRecordQPS"
    ELSE IF w.EnableZoneQPS THEN "Stats.GetZoneQPS"
    ELSE "Stats.GetQPS"

\* C8: each QPS refresh runs one strategy only, record level when
\* EnableRecordQPS is set (whatever EnableZoneQPS is), else zone level when
\* EnableZoneQPS is set, else account level: every QPS call of the pass is
\* of the selected strategy's kind and no call of the other two kinds is
\* issued.
C8_OneStrategy ==
    [][ExporterRefreshed
        => LET w == exporterWorker'
               stats == StatsCalls(calls')
           IN /\ \A i \in DOMAIN stats : stats[i].api = StatsCallOf(w)
              /\ lastCall'.strategy =
                    (IF w.EnableRecordQPS THEN "record"
                     ELSE IF w.EnableZoneQPS THEN "zone" ELSE "account")
              /\ (~w.EnableRecordQPS /\ ~w.EnableZoneQPS) => Len(stats) = 1]_vars

\* both levels enabled: a pass that issued record-level calls
C8_Witness ==
    /\ lastCall.op = "exporter.Refresh"
    /\ exporterWorker.EnableRecordQPS /\ exporterWorker.EnableZoneQPS
    /\ Issued(calls, "Stats.GetRecordQPS")
    /\ Len(exporterWorker.qpsCache.elems) > 1

\* the (zone, record domain, record type) keys a QPS pass over the zone
\* cache has to cover
ExpectedQPSKeys(w) ==
    IF w.EnableRecordQPS
    THEN UNION {{<<z, r.Domain, r.Type>> : r \in Range(w.zoneCache[z].Records)} :
                   z \in DOMAIN w.zoneCache}
    ELSE IF w.EnableZoneQPS
    THEN {<<z, "", "">> : z \in DOMAIN w.zoneCache}
    ELSE {<<"", "", "">>}

\* C9: a QPS refresh makes one call per key of its level (the account, each
\* zone of the zone cache, each zone/domain/type of the zone cache) whether
\* or not earlier calls failed, appends one cache entry per call made,
\* failed or not, in call order, and adds one to the failure counter for
\* each failed call.
C9_OneSamplePerCall ==
    [][ExporterRefreshed
        => LET w == exporterWorker'
               q == w.qpsCache.elems
               stats == StatsCalls(calls')
               listFailed == \E i \in DOMAIN calls' :
                                calls'[i].api = "Zones.List" /\ calls'[i].err
           IN /\ Len(q) = Len(stats)
              /\ Len(q) = Cardinality(ExpectedQPSKeys(w))
              /\ {<<q[i].ZoneName, q[i].RecordName, q[i].RecordType>> : i \in DOMAIN q}
                    = ExpectedQPSKeys(w)
              /\ \A i \in DOMAIN q :
                    /\ q[i].ZoneName = stats[i].zone
                    /\ q[i].RecordName = stats[i].domain
                    /\ q[i].RecordType = stats[i].type
                    /\ stats[i].err => q[i].Value = 0
              /\ apiFailures' = apiFailures + NumFailed(stats)
                                   + (IF listFailed THEN 1 ELSE 0)]_vars

\* a record-level pass over three records whose first call failed
C9_Witness ==
    /\ lastCall.op = "exporter.Refresh"
    /\ lastCall.strategy = "record"
    /\ Len(exporterWorker.qpsCache.elems) = 3
    /\ StatsCalls(calls)[1].err
    /\ ~StatsCalls(calls)[3].err
    /\ exporterWorker.qpsCache.elems[1].Value = 0

-----------------------------------------------------------------------------
(* pkg/ns1.RefreshZoneData called directly, on every listing of the three  *)
(* zones and every pair of filters.                                        *)

\* the filters a caller may pass: none, the empty pattern, and patterns
\* over the zone names
ZonePatterns ==
    {NilRegexp, Regexp(""), Regexp("drop.+"), Regexp("keep.+"), Regexp(".+e")}

CallRefreshZoneData ==
    /\ \E listErr \in BOOLEAN, getRecords \in BOOLEAN :
       \E Z \in (IF listErr THEN {{}} ELSE SUBSET AllZones) :
       \E zoneBlacklist \in ZonePatterns, zoneWhitelist \in ZonePatterns :
         LET kept == Range(FilterZones(Listing(Z), zoneBlacklist, zoneWhitelist))
         IN \E getErr \in (IF getRecords THEN SUBSET kept ELSE {{}}) :
              LET out == RefreshZoneData(listErr, Listing(Z), getRecords,
                                         zoneBlacklist, zoneWhitelist, getErr)
              IN /\ apiFailures + out.failures <= MaxFailures
                 /\ zdIn' = [listErr |-> listErr, listed |-> Listing(Z),
                             getRecords |-> getRecords,
                             zoneBlacklist |-> zoneBlacklist,
                             zoneWhitelist |-> zoneWhitelist,
                             getErr |-> getErr]
                 /\ zdOut' = out.zMap
                 /\ apiFailures' = apiFailures + out.failures
                 /\ calls' = out.calls
    /\ lastCall' = NoCall("ns1.RefreshZoneData")
    /\ response' = NoResponse
    /\ ch' = <<>>
    /\ UNCHANGED <<sdWorker, exporterWorker, now, sdSkips, race, activityLog, group>>

NoArguments == [listErr |-> FALSE, listed |-> <<>>, getRecords |-> FALSE,
                zoneBlacklist |-> NilRegexp, zoneWhitelist |-> NilRegexp,
                getErr |-> {}]

InitZones ==
    /\ sdWorker = NoSDWorker
    /\ exporterWorker = NoWorker
    /\ apiFailures = 0
    /\ now = 1
    /\ calls = <<>>
    /\ lastCall = NoCall("none")
    /\ sdSkips = 0
    /\ response = NoResponse
    /\ ch = <<>>
    /\ zdIn = NoArguments
    /\ zdOut = <<>>
    /\ race = <<>>
    /\ activityLog = {}
    /\ group = NoGroup

NextZones == CallRefreshZoneData

SpecZones == InitZones /\ [][NextZones]_vars

\* a zone passes a filter pair: no non-empty blacklist matches it and the
\* non-empty whitelist, if there is one, matches it
PassesFilters(z, blacklist, whitelist) ==
    /\ ~(~blacklist.nil /\ blacklist.expr # "" /\ MatchString(blacklist, z))
    /\ (~whitelist.nil /\ whitelist.expr # "") => MatchString(whitelist, z)

\* C10: after a RefreshZoneData call whose zone listing succeeded, the keys
\* of the result are exactly the listed zones that match no non-empty
\* blacklist and match the non-empty whitelist if one is given (less, with
\* getRecords, the zones whose detail call failed); a zone the blacklist
\* matches is never a key, whatever the whitelist; a nil or empty pattern
\* removes no zone.
C10_ZoneFiltering ==
    (lastCall.op = "ns1.RefreshZoneData" /\ ~zdIn.listErr)
        => LET bl == zdIn.zoneBlacklist
               wl == zdIn.zoneWhitelist
               listed == Range(zdIn.listed)
               keys == DOMAIN zdOut
           IN /\ keys = {z \in listed : PassesFilters(z, bl, wl)} \ zdIn.getErr
              /\ \A z \in keys :
                    ~(~bl.nil /\ bl.expr # "" /\ MatchString(bl, z))
              /\ ((bl.nil \/ bl.expr = "") /\ (wl.nil \/ wl.expr = ""))
                    => keys = listed \ zdIn.getErr

\* all three zones listed, the blacklist and the whitelist both match
\* drop.me and the whitelist does not match foo.bar: only keep.me is left
C10_Witness ==
    /\ lastCall.op = "ns1.RefreshZoneData"
    /\ Range(zdIn.listed) = AllZones
    /\ zdIn.zoneBlacklist = Regexp("drop.+")
    /\ zdIn.zoneWhitelist = Regexp(".+e")
    /\ zdIn.getErr = {}
    /\ DOMAIN zdOut = {"keep.me"}

-----------------------------------------------------------------------------
(* A refresh pass and a reader of the same cache, word by word.            *)
(*                                                                         *)
(* The refresh goroutine builds the new list in a local slice and assigns  *)
(* it to the worker's field (`w.targetCache = data`, `w.qpsCache = cache`);*)
(* the reader (ServeHTTP, Collect) runs on a goroutine of the HTTP server  *)
(* and copies the field.  Nothing orders the two.  A slice is a header of  *)
(* several words (the pointer to the backing array and the length are the *)
(* ones a reader uses); the assignment stores them and the read loads     *)
(* them one at a time, and a load may fall between two stores.            *)

\* the lists a pass may build: an entry for each zone of some listing
CacheValues == {Listing(Z) : Z \in SUBSET AccountZones}

\* what a header denotes: the first len elements at ptr (0 is nil); an
\* element past the end of the backing array is not one of the list
Denotes(heap, ptr, len) ==
    [i \in 1..len |->
        IF ptr # 0 /\ i <= Len(heap[ptr]) THEN heap[ptr][i] ELSE "<out of range>"]

IdleReader == [pc |-> "idle", ptr |-> 0, len |-> 0, observed |-> <<>>,
               during |-> {}]

IdleWriter == [pc |-> "idle", ptr |-> 0, len |-> 0]

\* the complete values of the cache a reader may meet from now on
CompleteNow(r) ==
    {Denotes(r.heap, r.ptr, r.len)} \cup
    (IF r.writer.pc = "idle" THEN {}
     ELSE {r.old, Denotes(r.heap, r.writer.ptr, r.writer.len)})

\* the pass has built its list in the local slice (the loop of
\* RefreshPrometheusTargetData, RefreshQPSZoneData, RefreshQPSRecordData);
\* a list without entries is the nil slice
BuildCache ==
    /\ race.writer.pc = "idle"
    /\ race.passes < MaxPasses
    /\ \E data \in CacheValues :
         LET heap == IF data = <<>> THEN race.heap ELSE Append(race.heap, data)
             local == [pc |-> "built",
                       ptr |-> IF data = <<>> THEN 0 ELSE Len(heap),
                       len |-> Len(data)]
         IN race' = [race EXCEPT
                        !.heap = heap,
                        !.writer = local,
                        !.old = Denotes(race.heap, race.ptr, race.len),
                        !.reader.during =
                            IF race.reader.pc \in {"ptr", "len"}
                            THEN @ \cup {data} ELSE @]
    /\ UNCHANGED <<sdWorker, exporterWorker, apiFailures, now, calls, lastCall,
                   sdSkips, response, ch, zdIn, zdOut, group, activityLog>>

\* the assignment to the worker's field, one word
StoreWord ==
    /\ \/ /\ race.writer.pc = "built"
          /\ \/ race' = [race EXCEPT !.ptr = race.writer.ptr, !.writer.pc = "ptr"]
             \/ race' = [race EXCEPT !.len = race.writer.len, !.writer.pc = "len"]
       \/ /\ race.writer.pc = "ptr"
          /\ race' = [race EXCEPT !.len = race.writer.len,
                                  !.writer = IdleWriter,
                                  !.passes = @ + 1]
       \/ /\ race.writer.pc = "len"
          /\ race' = [race EXCEPT !.ptr = race.writer.ptr,
                                  !.writer = IdleWriter,
                                  !.passes = @ + 1]
    /\ UNCHANGED <<sdWorker, exporterWorker, apiFailures, now, calls, lastCall,
                   sdSkips, response, ch, zdIn, zdOut, group, activityLog>>

\* the reader copies the field, one word; with both words it walks the list
\* they denote (json.MarshalIndent(w.targetCache), range w.qpsCache)
LoadWord ==
    /\ \/ /\ race.reader.pc \in {"idle", "done"}
          /\ \/ race' = [race EXCEPT !.reader =
                            [IdleReader EXCEPT !.pc = "ptr", !.ptr = race.ptr,
                                               !.during = CompleteNow(race)]]
             \/ race' = [race EXCEPT !.reader =
                            [IdleReader EXCEPT !.pc = "len", !.len = race.len,
                                               !.during = CompleteNow(race)]]
       \/ /\ race.reader.pc = "ptr"
          /\ race' = [race EXCEPT
                        !.reader.pc = "done",
                        !.reader.len = race.len,
                        !.reader.observed = Denotes(race.heap, race.reader.ptr, race.len)]
       \/ /\ race.reader.pc = "len"
          /\ race' = [race EXCEPT
                        !.reader.pc = "done",
                        !.reader.ptr = race.ptr,
                        !.reader.observed = Denotes(race.heap, race.ptr, race.reader.len)]
    /\ UNCHANGED <<sdWorker, exporterWorker, apiFailures, now, calls, lastCall,
                   sdSkips, response, ch, zdIn, zdOut, group, activityLog>>

InitRace ==
    /\ sdWorker = NoSDWorker
    /\ exporterWorker = NoWorker
    /\ apiFailures = 0
    /\ now = 1
    /\ calls = <<>>
    /\ lastCall = NoCall("none")
    /\ sdSkips = 0
    /\ response = NoResponse
    /\ ch = <<>>
    /\ zdIn = NoArguments
    /\ zdOut = <<>>
    /\ \E cache \in {"targetCache", "qpsCache"} :
         race = [cache |-> cache, heap |-> <<>>, ptr |-> 0, len |-> 0,
                 old |-> <<>>, passes |-> 0,
                 writer |-> IdleWriter, reader |-> IdleReader]
    /\ group = NoGroup
    /\ activityLog = {}

NextRace == BuildCache \/ StoreWord \/ LoadWord

SpecRace == InitRace /\ [][NextRace]_vars

\* C5: a reader that runs while refresh passes of the same worker run
\* observes a list that was the complete value of the cache at some point
\* of its read: the value from before a pass or the value the pass
\* installs.
C5_ReaderSeesCompleteCache ==
    race.reader.pc = "done" => race.reader.observed \in race.reader.during

-----------------------------------------------------------------------------
(* Properties of ns1.RefreshZoneData on provider failures.                 *)

\* the step is a direct call of ns1.RefreshZoneData
ZoneDataRefreshed == lastCall'.op = "ns1.RefreshZoneData"

\* C11: a RefreshZoneData call whose zone listing fails returns the empty
\* map, adds exactly 1 to the API-failure counter, issues the listing call
\* and no per-zone detail call, and returns (the call is a completed step).
C11_ListFailure ==
    [][(ZoneDataRefreshed /\ zdIn'.listErr)
        => /\ DOMAIN zdOut' = {}
           /\ apiFailures' = apiFailures + 1
           /\ Len(calls') = 1
           /\ calls'[1].api = "Zones.List" /\ calls'[1].err
           /\ ~Issued(calls', "Zones.Get")]_vars

\* a second failed listing in a row, with records wanted
C11_Witness ==
    /\ lastCall.op = "ns1.RefreshZoneData"
    /\ zdIn.listErr
    /\ zdIn.getRecords
    /\ zdOut = <<>>
    /\ apiFailures = 2

\* the calls of one kind among the calls of a pass, in order
CallsOf(cs, api) == LET Is(c) == c.api = api IN SelectSeq(cs, Is)

CallKey(c) == <<c.zone, c.domain, c.type>>

\* the record detail calls a pass owes for the zones it fetched: every
\* record of the zone whose type the record type whitelist admits
WantedRecords(w, zones) ==
    LET Admits(t) == (~w.RecordTypeWhitelist.nil /\ w.RecordTypeWhitelist.expr # "")
                        => MatchString(w.RecordTypeWhitelist, t)
    IN UNION {{<<z, r.Domain, r.Type>> : r \in {x \in Range(AccountRecords[z]) : Admits(x.Type)}}
              : z \in zones}

\* C12: in a full SD refresh whose zone listing succeeded, a detail call
\* is made for every retained zone whether or not earlier ones failed, and
\* the zone cache holds exactly the retained zones whose call succeeded; a
\* detail call is made for every wanted record of those zones whether or
\* not earlier ones failed, and the record cache holds exactly the records
\* whose call succeeded, in call order.
C12_FailuresDoNotAbort ==
    [][(/\ SDRefreshed
        /\ FullRefresh(calls')
        /\ ~\E i \in DOMAIN calls' : calls'[i].api = "Zones.List" /\ calls'[i].err)
        => LET w == sdWorker'
               retained == {z \in Range(lastCall'.listed) :
                               PassesFilters(z, w.ZoneBlacklist, w.ZoneWhitelist)}
               zoneGets == CallsOf(calls', "Zones.Get")
               failedZ == {zoneGets[i].zone : i \in {j \in DOMAIN zoneGets : zoneGets[j].err}}
               recGets == CallsOf(calls', "Records.Get")
               Ok(c) == ~c.err
               okGets == SelectSeq(recGets, Ok)
               cache == w.recordCache.elems
           IN /\ {zoneGets[i].zone : i \in DOMAIN zoneGets} = retained
              /\ Len(zoneGets) = Cardinality(retained)
              /\ DOMAIN w.zoneCache = retained \ failedZ
              /\ {CallKey(recGets[i]) : i \in DOMAIN recGets}
                    = WantedRecords(w, retained \ failedZ)
              /\ Len(recGets) = Cardinality(WantedRecords(w, retained \ failedZ))
              /\ Len(cache) = Len(okGets)
              /\ \A i \in DOMAIN cache :
                    <<cache[i].Zone, cache[i].Domain, cache[i].Type>> = CallKey(okGets[i])]_vars

\* the first of three record detail calls failed: the other two records
\* are cached
C12_Witness ==
    /\ lastCall.op = "sd.Refresh"
    /\ Len(CallsOf(calls, "Records.Get")) = 3
    /\ CallsOf(calls, "Records.Get")[1].err
    /\ Len(sdWorker.recordCache.elems) = 2
    /\ Len(sdWorker.targetCache.elems) = 2

\* C13: every step adds to the API-failure counter exactly the number of
\* provider calls that failed in it, whatever their kind.
C13_EveryFailureCounted ==
    [][apiFailures' = apiFailures + NumFailed(calls')]_vars

\* the zones a direct RefreshZoneData call retains
RetainedZones ==
    {z \in Range(zdIn.listed) : PassesFilters(z, zdIn.zoneBlacklist, zdIn.zoneWhitelist)}

\* C14: a RefreshZoneData call with getRecords false whose listing
\* succeeded makes the listing call only and returns one entry per
\* retained zone, keyed by the zone name, whose value is the zero Zone:
\* an empty zone name, no network IDs and an empty record list.
C14_ZeroZonePerName ==
    (lastCall.op = "ns1.RefreshZoneData" /\ ~zdIn.listErr /\ ~zdIn.getRecords)
        => /\ ~Issued(calls, "Zones.Get")
           /\ Len(calls) = 1
           /\ DOMAIN zdOut = RetainedZones
           /\ \A z \in DOMAIN zdOut :
                 zdOut[z] = [Zone |-> "", NetworkIDs |-> <<>>, Records |-> <<>>]

\* the three zones listed without detail: three entries
C14_Witness ==
    /\ lastCall.op = "ns1.RefreshZoneData"
    /\ ~zdIn.listErr /\ ~zdIn.getRecords
    /\ DOMAIN zdOut = AllZones
    /\ zdOut["foo.bar"].Zone = ""

\* C14 as stated: with getRecords false each value carries the zone name
\* and an empty record list.
C14_ValueNamesZone ==
    (lastCall.op = "ns1.RefreshZoneData" /\ ~zdIn.listErr /\ ~zdIn.getRecords)
        => /\ ~Issued(calls, "Zones.Get")
           /\ DOMAIN zdOut = RetainedZones
           /\ \A z \in DOMAIN zdOut :
                 zdOut[z].Zone = z /\ zdOut[z].Records = <<>>

-----------------------------------------------------------------------------
(* Properties of the request-serving paths.                                *)

\* C15: what Collect sends is one ns1_build_info sample of value 1
\* followed by one ns1_stats_queries_per_second sample per entry of the
\* QPS cache, in cache order, each with the entry's value and its zone
\* name, record name and record type as labels, and nothing else; with a
\* nil cache it is the build info sample alone.
C15_CollectEmitsCache ==
    lastCall.op = "Collect"
        => LET q == exporterWorker.qpsCache.elems
           IN /\ Len(ch) = 1 + Len(q)
              /\ ch[1].desc = "ns1_build_info" /\ ch[1].value = 1
              /\ \A i \in DOMAIN q :
                    /\ ch[i + 1].desc = "ns1_stats_queries_per_second"
                    /\ ch[i + 1].value = q[i].Value
                    /\ ch[i + 1].labels = <<q[i].ZoneName, q[i].RecordName, q[i].RecordType>>

\* a collection over a QPS cache of three record-level entries
C15_Witness ==
    /\ lastCall.op = "Collect"
    /\ Len(exporterWorker.qpsCache.elems) = 3
    /\ Len(ch) = 4
    /\ ch[2].labels[2] # "" /\ ch[2].labels[3] # ""

-----------------------------------------------------------------------------
(* cmd/ns1_exporter: Run, its run.Group of four actors, and the HTTP       *)
(* server's routes.                                                        *)
(*                                                                         *)
(* g.Run starts every actor's execute function on a goroutine, waits for   *)
(* the first of them to return, calls every actor's interrupt function     *)
(* with that first result, waits for the others to return and returns the  *)
(* first result.  The provider answers every call here (failures are the   *)
(* subject of the specifications above): Refresh returns nothing and       *)
(* neither worker's control flow depends on what the provider said.        *)

Actors == {"signal", "qps", "sd", "web"}
Refreshers == {"qps", "sd"}

\* the defaults of --web.telemetry-path and --web.service-discovery-path
DefaultTelemetryPath == "/metrics"
DefaultSDPath == "/sd"

\* setupServer: the handler registered on the default mux under each
\* pattern.  The metrics handler goes to "/metrics" and the SD worker to
\* "/sd" whatever the two path flags say; the flags only name the links of
\* the landing page, and the telemetry path decides whether there is one.
SetupServer(enableSD, telemetryPath, sdPath) ==
    LET landing == IF telemetryPath # "/" THEN {"/"} ELSE {}
        sd == IF enableSD THEN {"/sd"} ELSE {}
    IN [p \in {"/metrics"} \cup sd \cup landing |->
           IF p = "/metrics" THEN "metrics"
           ELSE IF p = "/sd" THEN "sd"
           ELSE "landing"]

\* http.ServeMux: the handler a request path is routed to; an exact pattern
\* wins, the pattern "/" takes every other path, and with neither the mux
\* answers 404 itself
Route(routes, path) ==
    IF path \in DOMAIN routes THEN routes[path]
    ELSE IF "/" \in DOMAIN routes THEN routes["/"]
    ELSE "404"

\* NS1_APIKEY in the environment: unset, or set to a value
EnvUnset == [set |-> FALSE, value |-> ""]
EnvSet(v) == [set |-> TRUE, value |-> v]

\* os.Getenv: the value, "" for an unset variable
Getenv(env) == IF env.set THEN env.value ELSE ""

\* a token test that asked only whether the variable is set
TokenGivenIfSet(env) == env.set

\* `token == ""` fails the start
TokenGiven(env) == Getenv(env) # ""

\* a refresh actor that waits for the ticker before its first pass
RefresherStartWaiting == "select"

\* where a refresh actor's loop starts: in the call of Refresh
RefresherStart == "refreshing"

\* an SD actor that refreshed whatever the flag says
ActorStartRefreshing(a, enableSD) ==
    CASE a = "signal" -> "select"
      [] a \in Refreshers -> RefresherStart
      [] OTHER -> "serving"

\* where each actor's execute function starts
ActorStart(a, enableSD) ==
    CASE a = "signal" -> "select"
      [] a = "qps" -> RefresherStart
      [] a = "sd" -> IF enableSD THEN RefresherStart ELSE "wait"
      [] OTHER -> "serving"

\* the process before Run: the environment and the flags
NewProcess(env, enableSD, telemetryPath, sdPath) ==
    [env |-> env,
     token |-> TokenGiven(env),
     enableSD |-> enableSD,
     telemetryPath |-> telemetryPath,
     sdPath |-> sdPath,
     served |-> <<>>,
     main |-> "start",
     exit |-> -1,
     routes |-> <<>>,
     actor |-> [a \in Actors |-> "none"],
     cancel |-> [a \in Actors |-> FALSE],
     shutdown |-> FALSE,
     shutdownErr |-> "nil",
     pending |-> [a \in Refreshers |-> FALSE],
     taken |-> [a \in Refreshers |-> 0],
     started |-> [a \in Refreshers |-> 0],
     returned |-> <<>>]

\* a step of the process outside the workers
ProcessStep ==
    /\ calls' = <<>>
    /\ lastCall' = NoCall("Run")
    /\ response' = NoResponse
    /\ ch' = <<>>
    /\ UNCHANGED <<apiFailures, now, sdSkips, zdIn, zdOut, race, activityLog>>

\* Run up to g.Run: without NS1_APIKEY it exits 1; otherwise it builds the
\* two workers from the flags (their defaults), registers the routes and
\* starts the four actors
RunStart ==
    /\ group.main = "start"
    /\ IF ~group.token
       THEN /\ group' = [group EXCEPT !.main = "exited", !.exit = 1]
            /\ UNCHANGED <<sdWorker, exporterWorker>>
       ELSE /\ exporterWorker' = NewWorker(TRUE, TRUE, Regexp(""), Regexp(""))
            /\ sdWorker' = NewSDWorker(Regexp(""), Regexp(""), Regexp(""))
            /\ group' = [group EXCEPT
                  !.main = "running",
                  !.routes = SetupServer(group.enableSD, group.telemetryPath,
                                        group.sdPath),
                  !.actor = [a \in Actors |-> ActorStart(a, group.enableSD)],
                  !.started = [a \in Refreshers |->
                                  IF ActorStart(a, group.enableSD) = "refreshing"
                                  THEN 1 ELSE 0]]
    /\ ProcessStep

\* an actor's execute function returns err, for the reason why
Return(g, a, err, why) ==
    [g EXCEPT !.actor[a] = "done",
              !.returned = Append(@, [actor |-> a, err |-> err, why |-> why])]

\* the signal actor receives SIGINT or SIGTERM
SignalCaught ==
    /\ group.actor["signal"] = "select"
    /\ group' = Return(group, "signal", "nil", "signal")
    /\ UNCHANGED <<sdWorker, exporterWorker>>
    /\ ProcessStep

\* an actor blocked on its cancel channel finds it closed: the signal
\* actor in its select, the SD actor when SD is disabled, the web actor
\* after ListenAndServe returned http.ErrServerClosed
Cancelled(a) ==
    /\ \/ a = "signal" /\ group.actor[a] = "select"
       \/ a = "sd" /\ group.actor[a] = "wait"
       \/ a = "web" /\ group.actor[a] = "closed"
    /\ group.cancel[a]
    /\ group' = Return(group, a, "nil", "cancel")
    /\ UNCHANGED <<sdWorker, exporterWorker>>
    /\ ProcessStep

ActorCancelled == \E a \in {"signal", "sd", "web"} : Cancelled(a)

\* the call of Refresh a refresh actor is in returns; the actor goes on to
\* its select
QPSRefreshReturns ==
    /\ group.actor["qps"] = "refreshing"
    /\ ExporterRefreshPass(FALSE)
    /\ group' = [group EXCEPT !.actor["qps"] = "select"]

SDRefreshReturns ==
    /\ group.actor["sd"] = "refreshing"
    /\ SDRefreshPass(FALSE)
    /\ group' = [group EXCEPT !.actor["sd"] = "select"]

\* a ticker whose tick calls Refresh itself, the last pass returned or not
TickerFiresRefreshing ==
    /\ \E a \in Refreshers :
         /\ group.actor[a] \in {"refreshing", "select"}
         /\ group.taken[a] < MaxTicks
         /\ group' = [group EXCEPT !.actor[a] = "refreshing",
                                   !.taken[a] = @ + 1,
                                   !.started[a] = @ + 1]
    /\ UNCHANGED <<sdWorker, exporterWorker>>
    /\ ProcessStep

\* a refresh actor's ticker fires: a tick waits in ticker.C (which holds
\* one; a tick that finds one waiting is dropped and changes nothing)
TickerFires ==
    /\ \E a \in Refreshers :
         /\ group.actor[a] \in {"refreshing", "select"}
         /\ ~group.pending[a]
         /\ group.taken[a] < MaxTicks
         /\ group' = [group EXCEPT !.pending[a] = TRUE]
    /\ UNCHANGED <<sdWorker, exporterWorker>>
    /\ ProcessStep

\* a refresh actor's select: `case <-ticker.C: continue` calls Refresh
\* again, `case <-cancel: return nil`; with both ready either is taken
SelectTickOf(a) ==
    /\ group.actor[a] = "select"
    /\ group.pending[a]
    /\ group' = [group EXCEPT !.actor[a] = "refreshing",
                              !.pending[a] = FALSE,
                              !.taken[a] = @ + 1,
                              !.started[a] = @ + 1]
    /\ UNCHANGED <<sdWorker, exporterWorker>>
    /\ ProcessStep

SelectTick == \E a \in Refreshers : SelectTickOf(a)

SelectCancelOf(a) ==
    /\ group.actor[a] = "select"
    /\ group.cancel[a]
    /\ group' = Return(group, a, "nil", "cancel")
    /\ UNCHANGED <<sdWorker, exporterWorker>>
    /\ ProcessStep

SelectCancel == \E a \in Refreshers : SelectCancelOf(a)

\* web.ListenAndServe returns an error other than http.ErrServerClosed:
\* the web actor logs it and returns it
WebFails ==
    /\ group.actor["web"] = "serving"
    /\ group' = Return(group, "web", "listen", "error")
    /\ UNCHANGED <<sdWorker, exporterWorker>>
    /\ ProcessStep

\* after server.Shutdown, web.ListenAndServe returns http.ErrServerClosed:
\* the web actor waits for its cancel channel
WebClosed ==
    /\ group.actor["web"] = "serving"
    /\ group.shutdown
    /\ group' = [group EXCEPT !.actor["web"] = "closed"]
    /\ UNCHANGED <<sdWorker, exporterWorker>>
    /\ ProcessStep

\* the server is accepting requests
Serving == group.actor["web"] = "serving" /\ ~group.shutdown

\* a scrape of the metrics route; the registry calls Collect
RequestMetrics ==
    /\ Serving
    /\ Route(group.routes, "/metrics") = "metrics"
    /\ CollectCall
    /\ UNCHANGED group

\* a request on the service-discovery route
RequestSD ==
    /\ Serving
    /\ Route(group.routes, "/sd") = "sd"
    /\ ServeHTTPCall
    /\ UNCHANGED group

\* what server.Shutdown may return: nil, or an error of closing listeners
ShutdownResults == {"nil", "shutdown"}

\* g.Run: the first actor has returned; every actor's interrupt function
\* is called (three close their cancel channel, the web actor's shuts the
\* server down, logs the error if there is one, and then closes its
\* cancel channel)
GroupInterrupt ==
    /\ group.main = "running"
    /\ group.returned # <<>>
    /\ \E err \in ShutdownResults :
         group' = [group EXCEPT !.main = "interrupted",
                                !.cancel = [a \in Actors |-> TRUE],
                                !.shutdown = TRUE,
                                !.shutdownErr = err]
    /\ UNCHANGED <<sdWorker, exporterWorker>>
    /\ ProcessStep

\* a group that returned without waiting for its actors
GroupReturnEarly ==
    /\ group.main = "interrupted"
    /\ group' = [group EXCEPT !.main = "exited",
                              !.exit = IF group.returned[1].err = "nil" THEN 0 ELSE 1]
    /\ UNCHANGED <<sdWorker, exporterWorker>>
    /\ ProcessStep

\* a Run that ignored the result of g.Run
GroupReturnZero ==
    /\ group.main = "interrupted"
    /\ \A a \in Actors : group.actor[a] = "done"
    /\ group' = [group EXCEPT !.main = "exited", !.exit = 0]
    /\ UNCHANGED <<sdWorker, exporterWorker>>
    /\ ProcessStep

\* a Run that exits 1 when any actor or the shutdown reported an error
GroupReturnAnyError ==
    /\ group.main = "interrupted"
    /\ \A a \in Actors : group.actor[a] = "done"
    /\ group' = [group EXCEPT
                    !.main = "exited",
                    !.exit = IF /\ \A i \in DOMAIN group.returned :
                                      group.returned[i].err = "nil"
                                /\ group.shutdownErr = "nil"
                             THEN 0 ELSE 1]
    /\ UNCHANGED <<sdWorker, exporterWorker>>
    /\ ProcessStep

\* g.Run returns the first actor's result once every actor has returned;
\* Run exits 1 on an error and returns (exit 0) otherwise
GroupReturn ==
    /\ group.main = "interrupted"
    /\ \A a \in Actors : group.actor[a] = "done"
    /\ group' = [group EXCEPT !.main = "exited",
                              !.exit = IF group.returned[1].err = "nil" THEN 0 ELSE 1]
    /\ UNCHANGED <<sdWorker, exporterWorker>>
    /\ ProcessStep

\* what the environment may hold for NS1_APIKEY
APIKeys == {EnvUnset, EnvSet(""), EnvSet("key")}

InitRun ==
    /\ \E env \in APIKeys, enableSD \in BOOLEAN :
         group = NewProcess(env, enableSD, DefaultTelemetryPath, DefaultSDPath)
    /\ sdWorker = NoSDWorker
    /\ exporterWorker = NoWorker
    /\ apiFailures = 0
    /\ now = 1
    /\ calls = <<>>
    /\ lastCall = NoCall("none")
    /\ sdSkips = 0
    /\ response = NoResponse
    /\ ch = <<>>
    /\ zdIn = NoArguments
    /\ zdOut = <<>>
    /\ race = <<>>
    /\ activityLog = {}

NextRun ==
    \/ RunStart
    \/ SignalCaught
    \/ ActorCancelled
    \/ QPSRefreshReturns
    \/ SDRefreshReturns
    \/ TickerFires
    \/ SelectTick
    \/ SelectCancel
    \/ WebFails
    \/ WebClosed
    \/ RequestMetrics
    \/ RequestSD
    \/ GroupInterrupt
    \/ GroupReturn

SpecRun == InitRun /\ [][NextRun]_vars

\* a call of Refresh in flight returns: no refresh actor stays in its call
\* forever (weak fairness of QPSRefreshReturns and SDRefreshReturns, each
\* enabled exactly while its actor is in the call and ending the call)
RefreshReturns == \A a \in Refreshers : []<>(group.actor[a] # "refreshing")

\* The scheduling the shutdown relies on.  Every goroutine that can take a
\* step keeps running: the main goroutine in g.Run, an actor whose cancel
\* channel is closed and who waits on nothing else, the server once it is
\* shut down, and a call of Refresh in flight, which returns.  A select
\* with several ready cases chooses among them at random, so a refresh
\* actor that finds its cancel channel closed again and again does not
\* take the tick every time; a select with a tick ready does not block.
RunFairness ==
    /\ WF_vars(GroupInterrupt)
    /\ WF_vars(GroupReturn)
    /\ RefreshReturns
    /\ WF_vars(WebClosed)
    /\ \A a \in {"signal", "sd", "web"} : WF_vars(Cancelled(a))
    /\ \A a \in Refreshers : SF_vars(SelectCancelOf(a))
    /\ \A a \in Refreshers : WF_vars(SelectTickOf(a))

SpecRunLive == InitRun /\ [][NextRun]_vars /\ RunFairness

-----------------------------------------------------------------------------
(* Properties of the process.                                              *)

\* C16: serving a request, Collect for the metrics route or ServeHTTP for
\* the service-discovery route, issues no provider call and leaves both
\* workers (the zone, record, target and QPS caches, pollCount and
\* lastRefreshTimestamp) and the failure counter as they were; it does so
\* whatever the refresh actors are doing, a call of Refresh in flight
\* included.
C16_RequestsOnlyRead ==
    [][lastCall'.op \in {"Collect", "ServeHTTP"} =>
          /\ calls' = <<>>
          /\ sdWorker' = sdWorker
          /\ exporterWorker' = exporterWorker
          /\ apiFailures' = apiFailures]_vars

\* the service-discovery route answered from a filled target cache while
\* the SD actor's second call of Refresh had not returned
C16_Witness ==
    /\ lastCall.op = "ServeHTTP"
    /\ response.status = 200
    /\ sdWorker.targetCache # NilSlice
    /\ group.actor["sd"] = "refreshing"
    /\ group.started["sd"] = 2

\* every actor's execute function has returned
AllTerminated == \A a \in Actors : group.actor[a] = "done"

\* C17: coordinated shutdown.  Once any one of the four actors has
\* terminated, every actor's cancel channel gets closed and the server is
\* shut down; every actor then terminates (a call of Refresh in flight
\* returns first) and the process exits; and whenever the process has
\* exited out of g.Run, all four actors have terminated.
C17_CoordinatedShutdown ==
    /\ (group.returned # <<>>) ~>
           (group.shutdown /\ \A a \in Actors : group.cancel[a])
    /\ (group.returned # <<>>) ~> AllTerminated
    /\ (group.returned # <<>>) ~> (group.main = "exited")
    /\ [](group.main = "exited" /\ group.token => AllTerminated)

\* the server failed first while both refresh actors had a pass in
\* flight; all four actors have terminated and the process has exited
C17_Witness ==
    /\ group.main = "exited"
    /\ AllTerminated
    /\ Len(group.returned) = 4
    /\ group.returned[1].actor = "web"
    /\ group.enableSD
    /\ exporterWorker.qpsCache # NilSlice


\* the result of g.Run: the error of the first actor that returned
GroupError == group.returned[1].err

\* C18: once the process has exited out of g.Run, its exit status is 1 if
\* the group ended with an error and 0 otherwise: 1 when the server actor
\* ended the group by returning the error of web.ListenAndServe, 0 when
\* the signal actor ended it after a signal.
C18_ExitStatus ==
    group.main = "exited" /\ group.token =>
        /\ group.exit = (IF GroupError # "nil" THEN 1 ELSE 0)
        /\ (group.returned[1].actor = "web" => group.exit = 1)
        /\ (group.returned[1].actor = "signal" => group.exit = 0)

\* the server's listener failed while the service was running; the group
\* was torn down and the process exited 1
C18_Witness ==
    /\ group.main = "exited"
    /\ group.exit = 1
    /\ Len(group.returned) = 4
    /\ group.returned[1] = [actor |-> "web", err |-> "listen", why |-> "error"]
    /\ group.returned[4].actor = "signal"


\* the refresh actors that call Refresh: the QPS actor, and the SD actor
\* when service discovery is enabled
EnabledRefreshers == {"qps"} \cup (IF group.enableSD THEN {"sd"} ELSE {})

\* C19: an enabled refresh actor has always started one call of Refresh
\* more than it has taken ticks (the first call at its start, with no tick
\* taken, and one call after each tick), so it is never at its select
\* without having called Refresh; a tick waiting at
\* its select is followed by the next call unless the actor is cancelled;
\* and after it has returned, which it does only once cancelled, it
\* starts no call.
C19_RefreshAtStartAndEachTick ==
    /\ [](group.main \notin {"start"} /\ group.token =>
             \A a \in EnabledRefreshers :
                /\ group.started[a] = group.taken[a] + 1
                /\ (group.actor[a] = "select" => group.started[a] >= 1)
                /\ (group.actor[a] = "done" => group.cancel[a]))
    /\ \A a \in Refreshers :
          (group.actor[a] = "select" /\ group.pending[a])
             ~> (group.actor[a] \in {"refreshing", "done"})
    /\ [][\A a \in Refreshers :
             group.actor[a] = "done" => group'.started[a] = group.started[a]]_vars

\* the QPS actor refreshed at start and after each of two ticks, and then
\* found its cancel channel closed
C19_Witness ==
    /\ group.actor["qps"] = "done"
    /\ group.started["qps"] = 3
    /\ group.taken["qps"] = 2
    /\ exporterWorker.qpsCache # NilSlice


\* the provider calls only the SD worker issues
SDOnlyCalls == {"Activity.List", "Records.Get"}

\* C20: with service discovery disabled the SD worker's Refresh is never
\* called: no call of it starts, the worker stays as NewWorker built it,
\* and no account-activity or record-detail call is issued; the SD actor
\* is waiting for its cancel channel or has returned; and the routes of
\* the server do not include the service-discovery route.
C20_DisabledSDIsIdle ==
    group.main # "start" /\ group.token /\ ~group.enableSD =>
        /\ group.started["sd"] = 0
        /\ sdWorker = NewSDWorker(Regexp(""), Regexp(""), Regexp(""))
        /\ lastCall.op # "sd.Refresh"
        /\ \A i \in DOMAIN calls : calls[i].api \notin SDOnlyCalls
        /\ group.actor["sd"] \in {"wait", "done"}
        /\ (group.actor["sd"] = "done" => group.cancel["sd"])
        /\ \A p \in DOMAIN group.routes : group.routes[p] # "sd"
        /\ lastCall.op # "ServeHTTP"

\* with service discovery disabled the process ran, the QPS actor
\* refreshed twice, and the SD actor returned on cancellation
C20_Witness ==
    /\ ~group.enableSD
    /\ group.main = "exited"
    /\ group.token
    /\ group.started["qps"] = 2
    /\ group.actor["sd"] = "done"


\* C21: with NS1_APIKEY unset or empty, Run exits 1 in its first step: in
\* every state after the start the process has exited with status 1, no
\* worker has been built, no actor has been added or started, no route
\* registered, and no provider call has been issued or counted as failed.
C21_NoTokenExitsAtOnce ==
    Getenv(group.env) = "" /\ group.main # "start" =>
        /\ group.main = "exited"
        /\ group.exit = 1
        /\ exporterWorker = NoWorker
        /\ sdWorker = NoSDWorker
        /\ \A a \in Actors : group.actor[a] = "none"
        /\ group.returned = <<>>
        /\ DOMAIN group.routes = {}
        /\ calls = <<>>
        /\ apiFailures = 0

\* the process exited 1 with the variable set to the empty string
C21_Witness ==
    /\ group.env = EnvSet("")
    /\ group.main = "exited"
    /\ group.exit = 1

-----------------------------------------------------------------------------
(* setupServer under every setting of the path flags, and the routing of   *)
(* requests by the mux it fills.                                           *)

\* the values given to --web.telemetry-path and --web.service-discovery-path
TelemetryPaths == {DefaultTelemetryPath, "/", "/probe", "/m"}
SDPaths == {DefaultSDPath, "/targets"}

\* the paths requested
RequestPaths == TelemetryPaths \cup SDPaths \cup {"/other"}

\* setupServer(logger, sdWorker)
SetupServerCall ==
    /\ group.main = "start"
    /\ group' = [group EXCEPT
          !.main = "setup",
          !.routes = SetupServer(group.enableSD, group.telemetryPath, group.sdPath)]
    /\ UNCHANGED <<sdWorker, exporterWorker>>
    /\ ProcessStep

\* a request: the mux hands it to the handler its path is routed to
RouteRequest ==
    /\ group.main = "setup"
    /\ \E path \in RequestPaths :
         group' = [group EXCEPT !.served = <<path, Route(group.routes, path)>>]
    /\ UNCHANGED <<sdWorker, exporterWorker>>
    /\ ProcessStep

InitRoutes ==
    /\ \E enableSD \in BOOLEAN, telemetryPath \in TelemetryPaths, sdPath \in SDPaths :
         group = NewProcess(EnvSet("key"), enableSD, telemetryPath, sdPath)
    /\ sdWorker = NoSDWorker
    /\ exporterWorker = NoWorker
    /\ apiFailures = 0
    /\ now = 1
    /\ calls = <<>>
    /\ lastCall = NoCall("none")
    /\ sdSkips = 0
    /\ response = NoResponse
    /\ ch = <<>>
    /\ zdIn = NoArguments
    /\ zdOut = <<>>
    /\ race = <<>>
    /\ activityLog = {}

NextRoutes == SetupServerCall \/ RouteRequest

SpecRoutes == InitRoutes /\ [][NextRoutes]_vars

\* C22: once the server is set up, a request for the configured telemetry
\* path is routed to the metrics handler; with service discovery enabled a
\* request for the configured service-discovery path is routed to the SD
\* worker; and the landing page is registered at "/" exactly when the
\* telemetry path is not "/".
C22_RoutesFollowFlags ==
    group.main = "setup" =>
        /\ Route(group.routes, group.telemetryPath) = "metrics"
        /\ (group.enableSD => Route(group.routes, group.sdPath) = "sd")
        /\ ("/" \in DOMAIN group.routes <=> group.telemetryPath # "/")
        /\ ("/" \in DOMAIN group.routes => group.routes["/"] = "landing")

-----------------------------------------------------------------------------
(* Worker.RefreshRecordData called on its own, as the package's test does, *)
(* for every zone cache and record type whitelist.                         *)

\* the values given to --ns1.sd-record-type
RecordTypePatterns == {NilRegexp, Regexp(""), Regexp("SRV|AAAA"), Regexp("A")}

\* the zone caches: what RefreshZoneData leaves for some zones of the account
ZoneCaches == {[z \in Z |-> TrimZone(z, RawZone(z))] : Z \in SUBSET AccountZones}

CallRefreshRecordData ==
    /\ \E order \in Orders(DOMAIN sdWorker.zoneCache) :
       \E recErr \in SUBSET RecordKeysOf(sdWorker, sdWorker.zoneCache) :
         LET rd == RefreshRecordData(sdWorker, order, recErr)
         IN /\ apiFailures + rd.failures <= MaxFailures
            /\ sdWorker' = rd.w
            /\ apiFailures' = apiFailures + rd.failures
            /\ calls' = rd.calls
    /\ lastCall' = NoCall("sd.RefreshRecordData")
    /\ response' = NoResponse
    /\ ch' = <<>>
    /\ UNCHANGED <<exporterWorker, now, sdSkips, zdIn, zdOut, race, activityLog, group>>

InitRecords ==
    /\ \E recordType \in RecordTypePatterns, zc \in ZoneCaches :
         sdWorker = [NewSDWorker(NilRegexp, NilRegexp, recordType)
                        EXCEPT !.zoneCache = zc]
    /\ exporterWorker = NoWorker
    /\ apiFailures = 0
    /\ now = 1
    /\ calls = <<>>
    /\ lastCall = NoCall("none")
    /\ sdSkips = 0
    /\ response = NoResponse
    /\ ch = <<>>
    /\ zdIn = <<>>
    /\ zdOut = <<>>
    /\ race = <<>>
    /\ activityLog = {}
    /\ group = NoGroup

NextRecords == CallRefreshRecordData

SpecRecords == InitRecords /\ [][NextRecords]_vars

\* does the record type whitelist admit a type: a whitelist that is nil or
\* empty admits every type, any other the types it matches
AdmitsType(re, t) == IF re.nil \/ re.expr = "" THEN TRUE ELSE MatchString(re, t)

\* C23: RefreshRecordData makes, for each zone of the zone cache, one
\* record detail call for each of the zone's records that the record type
\* whitelist admits, in the order of the zone's record list, and no other
\* call; a nil or empty whitelist admits every record.
C23_RecordTypeFiltering ==
    [][lastCall'.op = "sd.RefreshRecordData" =>
          LET zc == sdWorker.zoneCache
              re == sdWorker.RecordTypeWhitelist
              Admitted(r) == AdmitsType(re, r.Type)
          IN /\ \A i \in DOMAIN calls' : calls'[i].api = "Records.Get"
             /\ \A i \in DOMAIN calls' : calls'[i].zone \in DOMAIN zc
             /\ \A z \in DOMAIN zc :
                   LET OfZone(c) == c.zone = z
                       made == SelectSeq(calls', OfZone)
                       owed == SelectSeq(zc[z].Records, Admitted)
                   IN /\ Len(made) = Len(owed)
                      /\ \A i \in DOMAIN made :
                            /\ made[i].domain = owed[i].Domain
                            /\ made[i].type = owed[i].Type]_vars

\* with the whitelist SRV|AAAA and both zones cached, the only call made
\* is for the AAAA record of foo.bar: its A record and that of keep.me are
\* dropped
C23_Witness ==
    /\ lastCall.op = "sd.RefreshRecordData"
    /\ sdWorker.RecordTypeWhitelist = Regexp("SRV|AAAA")
    /\ DOMAIN sdWorker.zoneCache = {"foo.bar", "keep.me"}
    /\ Len(calls) = 1
    /\ calls[1].type = "AAAA"
    /\ ~calls[1].err
    /\ SliceLen(sdWorker.recordCache) = 1

-----------------------------------------------------------------------------
(* The label functions of pkg/servicediscovery called on their own, as the *)
(* package's tests do, on records of every shape.                          *)

\* answer and record metadata
MetaUp == Meta("up" :> GoBool(TRUE))
MetaUpWeight == Meta(("up" :> GoBool(TRUE)) @@ ("weight" :> GoInt(50)))
MetaAll == Meta(("weight" :> GoInt(50)) @@ ("priority" :> GoInt(1))
                @@ ("up" :> GoBool(TRUE)))
Metas == {NilMeta, Meta(<<>>), MetaUp, MetaUpWeight, MetaAll}

\* the two delimiter pairs the callers pass
Delimiters == {<<"|", ";">>, <<";", ",">>}

\* raw answer data
Rdatas == {<<>>, <<"1.2.3.4">>, <<"1.2.3.4", "5.6.7.8", "127.0.0.1">>}

\* *dns.Answer
Answer(id, rdata, meta, region) ==
    [ID |-> id, Rdata |-> rdata, Meta |-> meta, RegionName |-> region]
AnswerOne == Answer("a1", <<"1.2.3.4", "5.6.7.8">>, MetaUpWeight, "")
AnswerTwo == Answer("a2", <<>>, NilMeta, "eu")
AnswerLists == {<<>>, <<AnswerOne>>, <<AnswerTwo, AnswerOne>>}

\* filter.Config: a nil map, or a map
NilConfig == [nil |-> TRUE, fields |-> <<>>]
Config(fields) == [nil |-> FALSE, fields |-> fields]
ConfigTwo == Config(("MockInt" :> GoInt(5)) @@ ("MockBool" :> GoBool(FALSE)))

\* *filter.Filter
Filter(type, disabled, config) ==
    [Type |-> type, Disabled |-> disabled, Config |-> config]
FilterLists ==
    {<<>>,
     <<Filter("up", FALSE, Config(<<>>))>>,
     <<Filter("mock_one", TRUE, ConfigTwo), Filter("mock_two", FALSE, NilConfig)>>}

\* record.Regions
RegionsTwo == Regions(("eu" :> [Meta |-> MetaUp]) @@ ("us" :> [Meta |-> Meta(<<>>)]))
RegionMaps == {NilRegions, Regions(<<>>), RegionsTwo}

NullableBools == {NilBool, BoolPtr(FALSE), BoolPtr(TRUE)}

\* *dns.Record
Record(type, ttl, answers, filters, meta, regions, addr, ovttl, subnet) ==
    [Zone |-> "foo.bar", Domain |-> "test.foo.bar", Type |-> type,
     ID |-> "mock" \o type \o "RecordID", Link |-> "", TTL |-> ttl,
     Answers |-> answers, Filters |-> filters, Meta |-> meta,
     Regions |-> regions,
     OverrideAddressRecords |-> addr, OverrideTTL |-> ovttl,
     UseClientSubnet |-> subnet]

\* the records the label functions are given: every shape of answers,
\* filters, metadata and regions, and every setting of the three overrides
LabelRecords ==
    {Record(type, 3600, answers, filters, meta, regions, NilBool, NilBool, NilBool) :
        type \in {"A", "AAAA"}, answers \in AnswerLists, filters \in FilterLists,
        meta \in {NilMeta, MetaUp, MetaAll}, regions \in RegionMaps}
    \cup
    {Record("A", 60, <<AnswerOne>>, <<>>, NilMeta, regions, addr, ovttl, subnet) :
        regions \in {NilRegions, RegionsTwo},
        addr \in NullableBools, ovttl \in NullableBools, subnet \in NullableBools}

\* one function is called, once: its result is kept in zdOut, what it was
\* given in zdIn
LabelCall(in, out) ==
    /\ zdIn' = in
    /\ zdOut' = out
    /\ calls' = <<>>
    /\ lastCall' = NoCall(in.fn)
    /\ response' = NoResponse
    /\ ch' = <<>>
    /\ UNCHANGED <<sdWorker, exporterWorker, apiFailures, now, sdSkips, race, activityLog, group>>

CallMetaLabel ==
    /\ zdIn.fn = "none"
    /\ \E meta \in Metas, d \in Delimiters, iter \in KeyIterations :
           LabelCall([fn |-> "metaAsPrometheusMetaLabel", meta |-> meta,
                      innerDelim |-> d[1], outerDelim |-> d[2], iter |-> iter],
                     metaAsPrometheusMetaLabel(meta, d[1], d[2], iter))

CallRdataLabel ==
    /\ zdIn.fn = "none"
    /\ \E rdata \in Rdatas, d \in Delimiters :
           LabelCall([fn |-> "answerRdataAsPrometheuaMetaLabel", rdata |-> rdata,
                      innerDelim |-> d[1], outerDelim |-> d[2]],
                     answerRdataAsPrometheuaMetaLabel(rdata, d[1], d[2]))

CallFiltersLabel ==
    /\ zdIn.fn = "none"
    /\ \E filters \in FilterLists, iter \in KeyIterations :
           LabelCall([fn |-> "recordFiltersAsPrometheusMetaLabel",
                      filters |-> filters, iter |-> iter],
                     recordFiltersAsPrometheusMetaLabel(filters, iter))

CallRecordAsTarget ==
    /\ zdIn.fn = "none"
    /\ \E record \in LabelRecords, iter \in KeyIterations :
       \E regionOrder \in Orders(DOMAIN record.Regions.regions) :
           LabelCall([fn |-> "recordAsPrometheusTarget", record |-> record,
                      regionOrder |-> regionOrder, iter |-> iter],
                     recordAsPrometheusTargetOf(record, regionOrder, iter))

InitLabels ==
    /\ zdIn = [fn |-> "none"]
    /\ zdOut = ""
    /\ sdWorker = NoSDWorker
    /\ exporterWorker = NoWorker
    /\ apiFailures = 0
    /\ now = 1
    /\ calls = <<>>
    /\ lastCall = NoCall("none")
    /\ sdSkips = 0
    /\ response = NoResponse
    /\ ch = <<>>
    /\ race = <<>>
    /\ activityLog = {}
    /\ group = NoGroup

NextLabels == CallMetaLabel \/ CallRdataLabel \/ CallFiltersLabel \/ CallRecordAsTarget

SpecLabels == InitLabels /\ [][NextLabels]_vars

-----------------------------------------------------------------------------
(* Properties of the label functions.                                      *)

\* the thirteen label names, spelled out
RecordLabelNames ==
    {"__meta_ns1_record_" \o n :
        n \in {"answers", "domain", "filters", "id", "link", "meta",
               "override_address_records_enabled", "override_ttl_enabled",
               "regions", "ttl", "type", "use_client_subnet_enabled", "zone"}}

\* the last call was recordAsPrometheusTarget
TargetMade == zdIn.fn = "recordAsPrometheusTarget"

\* C24: the target made of a record has one element in Targets, the
\* record's domain, "-" and its type; its label set has the thirteen
\* __meta_ns1_record_ keys and no other; the domain, id, link, type and
\* zone labels are the record's fields as they are, and the ttl label is
\* the TTL in decimal.
C24_TargetShape ==
    TargetMade =>
        LET record == zdIn.record
            label(n) == zdOut.Labels["__meta_ns1_record_" \o n]
        IN /\ Len(zdOut.Targets) = 1
           /\ zdOut.Targets[1] = record.Domain \o "-" \o record.Type
           /\ DOMAIN zdOut.Labels = RecordLabelNames
           /\ Cardinality(DOMAIN zdOut.Labels) = 13
           /\ label("domain") = record.Domain
           /\ label("id") = record.ID
           /\ label("link") = record.Link
           /\ label("type") = record.Type
           /\ label("zone") = record.Zone
           /\ (record.TTL = 3600 => label("ttl") = "3600")
           /\ (record.TTL = 60 => label("ttl") = "60")

\* the target of the AAAA record of the package's tests
C24_Witness ==
    /\ TargetMade
    /\ zdIn.record.Type = "AAAA"
    /\ zdOut.Targets = <<"test.foo.bar-AAAA">>
    /\ zdOut.Labels["__meta_ns1_record_ttl"] = "3600"
    /\ zdOut.Labels["__meta_ns1_record_id"] = "mockAAAARecordID"

\* the key=value entries of the metadata of the model, in lexicographic
\* key order, spelled out
MetaEntries(meta) ==
    CASE meta = MetaUp -> <<"up=1">>
      [] meta = MetaUpWeight -> <<"up=1", "weight=50">>
      [] meta = MetaAll -> <<"priority=1", "up=1", "weight=50">>
      [] OTHER -> <<>>

\* the meta block the specification describes
MetaBlock(meta, inner, outer) ==
    LET entries == MetaEntries(meta)
    IN IF entries = <<>>
       THEN "meta[" \o inner \o inner \o "]" \o outer
       ELSE "meta[" \o inner
            \o Concat([i \in DOMAIN entries |-> entries[i] \o inner])
            \o "]" \o outer

\* C25: metaAsPrometheusMetaLabel returns "meta[" inner inner "]" outer for
\* metadata that is absent or has no field set, and otherwise "meta[" inner,
\* then key=value inner for each set field in lexicographic key order (true
\* as 1), then "]" outer; in whatever order the map's keys were visited.
C25_MetaLabel ==
    zdIn.fn = "metaAsPrometheusMetaLabel" =>
        /\ zdOut = MetaBlock(zdIn.meta, zdIn.innerDelim, zdIn.outerDelim)
        /\ (zdIn.meta \in {NilMeta, Meta(<<>>)} /\ zdIn.innerDelim = "|"
               => zdOut = "meta[||];")
        /\ (zdIn.meta = MetaAll /\ zdIn.innerDelim = "|"
               => zdOut = "meta[|priority=1|up=1|weight=50|];")

\* the three fields of the package's test visited weight first, and
\* written in key order all the same
C25_Witness ==
    /\ zdIn.fn = "metaAsPrometheusMetaLabel"
    /\ zdIn.meta = MetaAll
    /\ zdIn.iter[1] = "weight"
    /\ zdIn.innerDelim = "|"
    /\ zdOut = "meta[|priority=1|up=1|weight=50|];"

\* the rdata block the specification describes, for the answers label
RdataBlock(rdata) ==
    IF rdata = <<>> THEN "rdata[||];"
    ELSE "rdata[|" \o Concat([i \in DOMAIN rdata |-> rdata[i] \o "|"]) \o "];"

\* the part of the answers label one answer accounts for
AnswerBlock(answer) ==
    ";id=" \o answer.ID \o ";" \o RdataBlock(answer.Rdata)
    \o MetaBlock(answer.Meta, "|", ";")
    \o "region_name=" \o answer.RegionName \o ";" \o ","

\* C26: the answers label is "," followed, for each answer in the record's
\* answer order, by ";id=<id>;", the rdata block, the meta block,
\* "region_name=<region>;" and ","; the rdata block is "rdata[||];" for an
\* answer with no raw data and otherwise "rdata[|", each raw value followed
\* by "|", and "];".
C26_AnswersLabel ==
    /\ TargetMade =>
          LET answers == zdIn.record.Answers
              label == zdOut.Labels["__meta_ns1_record_answers"]
          IN /\ label = "," \o Concat([i \in DOMAIN answers |-> AnswerBlock(answers[i])])
             /\ (answers = <<>> => label = ",")
             /\ (answers = <<AnswerOne>> =>
                    label = ",;id=a1;rdata[|1.2.3.4|5.6.7.8|];meta[|up=1|weight=50|];region_name=;,")
             /\ (answers = <<AnswerTwo, AnswerOne>> =>
                    label = ",;id=a2;rdata[||];meta[||];region_name=eu;,"
                            \o ";id=a1;rdata[|1.2.3.4|5.6.7.8|];meta[|up=1|weight=50|];region_name=;,")
    /\ zdIn.fn = "answerRdataAsPrometheuaMetaLabel" /\ zdIn.innerDelim = "|" =>
          zdOut = RdataBlock(zdIn.rdata)

\* a record of two answers, the first with no raw data and a region, the
\* second with two raw values and two metadata fields
C26_Witness ==
    /\ TargetMade
    /\ zdIn.record.Answers = <<AnswerTwo, AnswerOne>>
    /\ zdIn.iter[1] = "weight"
    /\ zdOut.Labels["__meta_ns1_record_answers"] =
          ",;id=a2;rdata[||];meta[||];region_name=eu;,"
          \o ";id=a1;rdata[|1.2.3.4|5.6.7.8|];meta[|up=1|weight=50|];region_name=;,"

\* the k=v entries of the filter configurations of the model, in
\* lexicographic key order, spelled out
ConfigEntries(config) ==
    IF config = ConfigTwo THEN <<"MockBool=false", "MockInt=5">> ELSE <<>>

\* the config block the specification describes
ConfigBlock(config) ==
    LET entries == ConfigEntries(config)
    IN IF entries = <<>> THEN "config[||];"
       ELSE "config[|" \o Concat([i \in DOMAIN entries |-> entries[i] \o "|"]) \o "];"

\* the part of the filters label one filter accounts for
FilterBlock(f) ==
    ";type=" \o f.Type \o ";disabled=" \o (IF f.Disabled THEN "true" ELSE "false")
    \o ";" \o ConfigBlock(f.Config) \o ","

\* the filters label the specification describes
FiltersLabel(filters) ==
    IF filters = <<>> THEN ",,"
    ELSE "," \o Concat([i \in DOMAIN filters |-> FilterBlock(filters[i])])

\* C27: recordFiltersAsPrometheusMetaLabel returns ",," for an empty
\* filter list and otherwise "," followed, for each filter in list order,
\* by ";type=<type>;disabled=<true|false>;", the config block and ","; the
\* config block is "config[||];" for a nil or empty config and otherwise
\* "config[|", k=v| for each key in lexicographic order, and "];".  The
\* filters label of a target is that text.
C27_FiltersLabel ==
    /\ zdIn.fn = "recordFiltersAsPrometheusMetaLabel" =>
          /\ zdOut = FiltersLabel(zdIn.filters)
          /\ (zdIn.filters = <<>> => zdOut = ",,")
          /\ (Len(zdIn.filters) = 1 => zdOut = ",;type=up;disabled=false;config[||];,")
          /\ (Len(zdIn.filters) = 2 =>
                 zdOut = ",;type=mock_one;disabled=true;config[|MockBool=false|MockInt=5|];,"
                         \o ";type=mock_two;disabled=false;config[||];,")
    /\ TargetMade =>
          zdOut.Labels["__meta_ns1_record_filters"] = FiltersLabel(zdIn.record.Filters)

\* two filters, the first with a config of two keys visited MockInt first
C27_Witness ==
    /\ zdIn.fn = "recordFiltersAsPrometheusMetaLabel"
    /\ Len(zdIn.filters) = 2
    /\ zdIn.iter[4] = "MockInt"
    /\ zdOut = ",;type=mock_one;disabled=true;config[|MockBool=false|MockInt=5|];,"
               \o ";type=mock_two;disabled=false;config[||];,"

\* the override label the specification describes for a nullable field
OverrideText(ptr) ==
    CASE ptr = NilBool -> "false"
      [] ptr = BoolPtr(FALSE) -> "false"
      [] ptr = BoolPtr(TRUE) -> "true"

\* C28: each of the three override labels is "false" for a field that is
\* unset, "false" for one set to false and "true" for one set to true, and
\* it is so whatever the other two fields hold.
C28_OverrideLabels ==
    TargetMade =>
        LET record == zdIn.record
            label(n) == zdOut.Labels["__meta_ns1_record_" \o n]
        IN /\ label("override_address_records_enabled")
                 = OverrideText(record.OverrideAddressRecords)
           /\ label("override_ttl_enabled") = OverrideText(record.OverrideTTL)
           /\ label("use_client_subnet_enabled") = OverrideText(record.UseClientSubnet)

\* a record with the first override set to true, the second set to false
\* and the third unset
C28_Witness ==
    /\ TargetMade
    /\ zdIn.record.OverrideAddressRecords = BoolPtr(TRUE)
    /\ zdIn.record.OverrideTTL = BoolPtr(FALSE)
    /\ zdIn.record.UseClientSubnet = NilBool
    /\ zdOut.Labels["__meta_ns1_record_override_address_records_enabled"] = "true"
    /\ zdOut.Labels["__meta_ns1_record_override_ttl_enabled"] = "false"
    /\ zdOut.Labels["__meta_ns1_record_use_client_subnet_enabled"] = "false"

\* C29: the regions label is ",," for a record whose region map is unset,
\* and the empty string for a record whose region map is set, be it empty
\* or not and whatever its regions are called and hold.
C29_RegionsLabel ==
    TargetMade =>
        zdOut.Labels["__meta_ns1_record_regions"]
            = (IF zdIn.record.Regions = NilRegions THEN ",," ELSE "")

\* a record with the regions eu and us, visited us first, and an empty
\* regions label
C29_Witness ==
    /\ TargetMade
    /\ zdIn.record.Regions = RegionsTwo
    /\ zdIn.regionOrder = <<"us", "eu">>
    /\ zdOut.Labels["__meta_ns1_record_regions"] = ""

-----------------------------------------------------------------------------
(* Refresh passes of either worker, one after another, against a provider  *)
(* that may fail: the SD worker under each record type whitelist, the      *)
(* metrics worker under each setting of the two QPS flags.                 *)

InitPasses == InitSD \/ InitExporter

\* Refresh of the SD worker, where there is one
SDPass ==
    /\ sdWorker # NoSDWorker
    /\ SDRefresh

\* Refresh of the metrics worker, where there is one
ExporterPass ==
    /\ exporterWorker # NoWorker
    /\ ExporterRefresh

NextPasses == SDPass \/ ExporterPass

SpecPasses == InitPasses /\ [][NextPasses]_vars

-----------------------------------------------------------------------------
(* The order of the steps of a pass.                                       *)

\* the calls of cs to one of the APIs
CallsTo(cs, apis) ==
    LET Named(c) == c.api \in apis
    IN SelectSeq(cs, Named)

\* the calls of cs to the APIs `first` all come before those to `later`
CallsInOrder(cs, first, later) ==
    \A i \in DOMAIN cs, j \in DOMAIN cs :
        cs[i].api \in first /\ cs[j].api \in later => i < j

\* the (zone, domain, type) of every record listed in zone cache zc
ZoneCacheKeys(zc) ==
    UNION {{<<z, r.Domain, r.Type>> : r \in Range(zc[z].Records)} : z \in DOMAIN zc}

\* C30: within one refresh pass the steps run in order and each derived
\* cache is computed from the cache the same pass just installed.  After a
\* full SD refresh the zone calls precede the record calls, the record
\* calls are those of the records of the new zone cache, the record cache
\* holds the records whose call succeeded, in call order, and the target
\* cache has the length and the order of the new record cache, its i-th
\* target being recordAsPrometheusTarget of the i-th record.  After a
\* Refresh of the metrics worker the zone calls precede the QPS calls and
\* the QPS cache has one entry per key of the new zone cache.
C30_PassStepsInOrder ==
    [][/\ SDRefreshed /\ FullRefresh(calls')
          => LET w == sdWorker'
                 rc == w.recordCache.elems
                 tc == w.targetCache.elems
                 gets == CallsTo(calls', {"Records.Get"})
                 Ok(c) == ~c.err
                 fetched == SelectSeq(gets, Ok)
             IN /\ CallsInOrder(calls', {"Activity.List"}, {"Zones.List", "Zones.Get"})
                /\ CallsInOrder(calls', {"Zones.List", "Zones.Get"}, {"Records.Get"})
                /\ {<<gets[i].zone, gets[i].domain, gets[i].type>> : i \in DOMAIN gets}
                      = ZoneCacheKeys(w.zoneCache)
                /\ Len(rc) = Len(fetched)
                /\ \A i \in DOMAIN rc :
                      /\ rc[i].Zone = fetched[i].zone
                      /\ rc[i].Domain = fetched[i].domain
                      /\ rc[i].Type = fetched[i].type
                /\ Len(tc) = Len(rc)
                /\ \A i \in DOMAIN tc : tc[i] = recordAsPrometheusTarget(rc[i])
       /\ ExporterRefreshed
          => LET w == exporterWorker'
                 q == w.qpsCache.elems
             IN /\ CallsInOrder(calls', {"Zones.List", "Zones.Get"},
                                {"Stats.GetQPS", "Stats.GetZoneQPS", "Stats.GetRecordQPS"})
                /\ w.EnableRecordQPS
                      => {<<q[i].ZoneName, q[i].RecordName, q[i].RecordType>> : i \in DOMAIN q}
                            = ZoneCacheKeys(w.zoneCache)
                /\ ~w.EnableRecordQPS /\ w.EnableZoneQPS
                      => {q[i].ZoneName : i \in DOMAIN q} = DOMAIN w.zoneCache
                /\ ~w.EnableRecordQPS /\ ~w.EnableZoneQPS => Len(q) = 1]_vars

\* a full SD refresh, made after a poll (so not the first one), that left
\* two records and their two targets
C30_Witness ==
    /\ lastCall.op = "sd.Refresh"
    /\ lastCall.polled
    /\ FullRefresh(calls)
    /\ Len(sdWorker.recordCache.elems) = 2
    /\ Len(sdWorker.targetCache.elems) = 2
    /\ sdWorker.targetCache.elems[2]
          = recordAsPrometheusTarget(sdWorker.recordCache.elems[2])

-----------------------------------------------------------------------------
(* The zone cache across RefreshRecordData.                                *)

\* C31: caches are never changed in place: RefreshRecordData, with or
\* without a record type whitelist, leaves every entry of the zone cache
\* and its record list as RefreshZoneData installed them.
C31_ZoneCacheUntouched ==
    [][lastCall'.op = "sd.RefreshRecordData"
        => sdWorker'.zoneCache = sdWorker.zoneCache]_vars

-----------------------------------------------------------------------------
(* The SD worker under a clock and an account activity log: time passes    *)
(* between Refresh calls and during them, the provider logs activity, and  *)
(* Activity.List answers with the logged entries from `start` on.  The     *)
(* zone and record calls do not fail here; the activity query may.         *)

\* an account.Activity entry: its time in Unix seconds, its resource type
Entry(stamp, type) == [Timestamp |-> stamp, ResourceType |-> type]

\* the resource types logged: one the worker ignores, one it refreshes for
EntryTypes == {"user", "record"}

\* the entries the provider can log from tick `from` to tick `to`
EntriesBetween(from, to) ==
    {Entry(Unix(t), type) : t \in from..to, type \in EntryTypes}

\* the provider's answer to Activity.List(start): the resource types of
\* the logged entries stamped `start` or later, or a failure with none
ActivitySince(log, start) == {e \in log : e.Timestamp >= start}

LogAnswers(log, start) ==
    LET since == ActivitySince(log, start)
        listed == CHOOSE o \in Orders(since) : TRUE
    IN {[err |-> FALSE, activity |-> [i \in DOMAIN listed |-> listed[i].ResourceType]],
        [err |-> TRUE, activity |-> <<>>]}

\* Worker.Refresh taking `elapsed` ticks: it reads the clock first; the
\* provider logs the entries `new` meanwhile, those of `seen` before the
\* activity query is answered
RefreshTaking(elapsed, new, seen) ==
    /\ now + elapsed <= MaxClock
    /\ SDRefreshCall(PollOutcomesOf(sdWorker,
                        LogAnswers(activityLog \cup seen,
                                   Unix(sdWorker.lastRefreshTimestamp))),
                     FALSE)
    /\ now' = now + elapsed
    /\ activityLog' = activityLog \cup new
    /\ UNCHANGED group

\* a ticker-driven Refresh call of the SD worker
ClockedRefresh ==
    \E elapsed \in 0..MaxElapsed :
    \E new \in {E \in SUBSET EntriesBetween(now, now + elapsed) :
                    Cardinality(activityLog \cup E) <= MaxEntries} :
    \E seen \in SUBSET new :
        RefreshTaking(elapsed, new, seen)

\* time passes between two calls (lastCall keeps what it tells of the last
\* Refresh call)
ClockTick ==
    /\ now < MaxClock
    /\ now' = now + 1
    /\ lastCall' = [lastCall EXCEPT !.op = "tick"]
    /\ UNCHANGED <<sdWorker, exporterWorker, apiFailures, calls, sdSkips,
                   response, ch, zdIn, zdOut, race, group, activityLog>>

\* the provider logs an activity entry between two calls
LogActivity ==
    /\ \E type \in EntryTypes :
         /\ Entry(Unix(now), type) \notin activityLog
         /\ activityLog' = activityLog \cup {Entry(Unix(now), type)}
    /\ Cardinality(activityLog) < MaxEntries
    /\ lastCall' = [lastCall EXCEPT !.op = "activity"]
    /\ UNCHANGED <<sdWorker, exporterWorker, apiFailures, now, calls,
                   sdSkips, response, ch, zdIn, zdOut, race, group>>

InitClock ==
    /\ sdWorker = NewSDWorker(NilRegexp, Regexp("keep.+"), NilRegexp)
    /\ exporterWorker = NoWorker
    /\ apiFailures = 0
    /\ now = 1
    /\ calls = <<>>
    /\ lastCall = NoCall("none")
    /\ sdSkips = 0
    /\ response = NoResponse
    /\ ch = <<>>
    /\ zdIn = <<>>
    /\ zdOut = <<>>
    /\ race = <<>>
    /\ group = NoGroup
    /\ activityLog = {}

NextClock == ClockedRefresh \/ ClockTick \/ LogActivity

SpecClock == InitClock /\ [][NextClock]_vars

-----------------------------------------------------------------------------
(* Properties of the SD worker under the clock.                            *)

\* C32: every SD Refresh call sets lastRefreshTimestamp to the time it read
\* at its start, whether or not it refreshed and whether or not the
\* activity query failed; the timestamp never decreases from call to call.
C32_TimestampEveryCall ==
    [][SDRefreshed
        => /\ sdWorker'.lastRefreshTimestamp = now
           /\ sdWorker'.lastRefreshTimestamp >= sdWorker.lastRefreshTimestamp]_vars

\* a call that took time, whose activity query failed and which skipped
\* the refresh, after an earlier call: the timestamp is the start time
C32_Witness ==
    /\ lastCall.op = "sd.Refresh"
    /\ lastCall.polled
    /\ Len(calls) = 1 /\ calls[1].err
    /\ lastCall.ts > 1
    /\ sdWorker.lastRefreshTimestamp = lastCall.ts
    /\ now > lastCall.ts

-----------------------------------------------------------------------------
(* The SD worker's activity query failing, and its poll counter.           *)

\* C33: an SD Refresh whose activity query fails adds one to the failure
\* counter for it, still counts the poll, and goes on with no activity: it
\* skips the refresh while the poll count is below PollLimit and refreshes
\* in full on the poll that reaches it; the call is never cut short.
C33_ActivityFailure ==
    [][SDRefreshed /\ lastCall'.polled /\ calls'[1].err
        => LET polls == sdWorker.pollCount + 1
           IN /\ calls'[1].api = "Activity.List"
              /\ apiFailures' >= apiFailures + 1
              /\ lastCall'.poll = polls
              /\ polls < PollLimit
                    => /\ ~FullRefresh(calls')
                       /\ Len(calls') = 1
                       /\ apiFailures' = apiFailures + 1
                       /\ sdWorker'.pollCount = polls
                       /\ SDCachesUnchanged
              /\ polls >= PollLimit
                    => /\ FullRefresh(calls')
                       /\ sdWorker'.pollCount = 0
              /\ sdWorker'.lastRefreshTimestamp = now]_vars

\* the tenth poll in a row failed and the call refreshed in full
C33_Witness ==
    /\ lastCall.op = "sd.Refresh"
    /\ lastCall.polled
    /\ calls[1].err
    /\ lastCall.poll = PollLimit
    /\ FullRefresh(calls)
    /\ sdWorker.pollCount = 0
    /\ apiFailures >= 1

-----------------------------------------------------------------------------
(* The windows of the activity polls.                                      *)

\* C34: the polling windows leave no gap.  Every activity query asks for
\* the entries from the start of the Refresh call just before it (not from
\* the last full refresh); so when the log holds an entry of a relevant
\* type stamped at or after the start of that call and the query
\* succeeds, the call refreshes in full.
C34_NoGapBetweenPolls ==
    [][SDRefreshed /\ lastCall'.polled
        => /\ calls'[1].api = "Activity.List"
           /\ calls'[1].start = ToString(Unix(lastCall.ts))
           /\ (/\ ~calls'[1].err
               /\ \E e \in activityLog :
                     /\ e.ResourceType \in RelevantResourceTypes
                     /\ e.Timestamp >= Unix(lastCall.ts))
                 => FullRefresh(calls')]_vars

\* the second poll since the last full refresh: it asked from second 1 on,
\* the start of the call that skipped, got a record entry of that second
\* and refreshed
C34_Witness ==
    /\ lastCall.op = "sd.Refresh"
    /\ lastCall.polled
    /\ lastCall.poll = 2
    /\ ~calls[1].err
    /\ calls[1].start = "1"
    /\ Entry(1, "record") \in activityLog
    /\ Entry(0, "record") \notin activityLog
    /\ FullRefresh(calls)

\* C35: after every SD Refresh call pollCount lies between 0 and
\* PollLimit - 1, and it is 0 exactly after the calls that refreshed in
\* full; no operation other than Refresh changes it.
C35_PollCountRange ==
    [][/\ SDRefreshed
          => /\ sdWorker'.pollCount \in 0..(PollLimit - 1)
             /\ (sdWorker'.pollCount = 0) <=> FullRefresh(calls')
       /\ ~SDRefreshed
          => sdWorker'.pollCount = sdWorker.pollCount]_vars

\* a request served after nine polls in a row that skipped the refresh
C35_Witness ==
    /\ lastCall.op = "ServeHTTP"
    /\ sdWorker.pollCount = PollLimit - 1
    /\ sdSkips = PollLimit - 1

-----------------------------------------------------------------------------
(* The SD worker after a refresh that fetched nothing.                     *)

\* the calls of cs that fetched a record
Fetched(cs) ==
    LET Got(c) == c.api = "Records.Get" /\ ~c.err
    IN SelectSeq(cs, Got)

\* C36: a full SD refresh that fetched no record (the listing failed, every
\* zone or record call failed, or the filters left nothing) leaves the
\* record cache nil; the Refresh call that follows then refreshes in full
\* without an activity query and without counting a poll, and so does
\* every call until one fetches a record.
C36_SelfHealing ==
    [][SDRefreshed
        => /\ (FullRefresh(calls') /\ Len(Fetched(calls')) = 0)
                 => sdWorker'.recordCache = NilSlice
           /\ (FullRefresh(calls') /\ Len(Fetched(calls')) > 0)
                 => ~sdWorker'.recordCache.nil
           /\ sdWorker.recordCache = NilSlice
                 => /\ ~lastCall'.polled
                    /\ ~Issued(calls', "Activity.List")
                    /\ FullRefresh(calls')
                    /\ sdWorker.pollCount = 0
                    /\ sdWorker'.pollCount = 0]_vars

\* a second full refresh in a row whose zone listing failed: no poll, the
\* record cache nil again
C36_Witness ==
    /\ lastCall.op = "sd.Refresh"
    /\ ~lastCall.polled
    /\ Len(calls) = 1
    /\ calls[1].api = "Zones.List" /\ calls[1].err
    /\ apiFailures = 2
    /\ sdWorker.recordCache = NilSlice
    /\ sdWorker.pollCount = 0

-----------------------------------------------------------------------------
(* The refresh actors: one pass at a time, and the end of the process.     *)

\* the worker each refresh actor refreshes
WorkerOf(a) == IF a = "sd" THEN sdWorker ELSE exporterWorker

\* C37: the passes of one worker never overlap.  A Refresh call of a
\* worker starts only when that worker's actor is not inside one, ticks
\* that fire during a pass start nothing (at most one waits), and a
\* worker's caches are written by its own actor's pass and nothing else;
\* the two workers' passes may be in flight together.
C37_PassesDoNotOverlap ==
    [][\A a \in Refreshers :
          /\ group'.started[a] # group.started[a]
                => /\ group'.started[a] = group.started[a] + 1
                   /\ group.actor[a] # "refreshing"
                   /\ group'.actor[a] = "refreshing"
          /\ (group.actor[a] = "refreshing" /\ group'.actor[a] = "refreshing")
                => /\ group'.started[a] = group.started[a]
                   /\ group'.taken[a] = group.taken[a]
          /\ (group.main # "start" /\ WorkerOf(a)' # WorkerOf(a))
                => /\ group.actor[a] = "refreshing"
                   /\ group'.actor[a] = "select"
                   /\ lastCall'.op = (IF a = "sd" THEN "sd.Refresh"
                                                  ELSE "exporter.Refresh")]_vars

\* both workers inside their second pass, a tick of each ticker waiting
C37_Witness ==
    /\ group.main = "running"
    /\ \A a \in Refreshers :
          /\ group.actor[a] = "refreshing"
          /\ group.started[a] = 2
          /\ group.pending[a]

\* C38: a refresh actor sees the cancellation only between passes.  A pass
\* in flight when the cancel channel is closed runs to its end, no Refresh
\* call starts once the channel is closed, and the process exits only
\* after every actor, the refreshing ones included, has returned.
C38_CancelBetweenPasses ==
    [][\A a \in Refreshers :
          /\ (group.cancel[a] /\ group.actor[a] = "refreshing")
                => group'.actor[a] \in {"refreshing", "select"}
          /\ group.cancel[a]
                => group'.started[a] = group.started[a]
          /\ (group.token /\ group.main # "exited" /\ group'.main = "exited")
                => group.actor[a] = "done"]_vars

\* C39: the first actor to return decides the exit status alone.  When the
\* signal actor returns first (it returns no error) the process exits 0,
\* whatever server.Shutdown reports and whatever the actors that return
\* after it return.
C39_FirstActorDecides ==
    (group.main = "exited" /\ group.token /\ group.returned[1].actor = "signal")
        => /\ group.returned[1].err = "nil"
           /\ group.exit = 0

\* the signal came first; the shutdown reported an error and the web actor
\* returned the error of its listener; the process exited 0
C39_Witness ==
    /\ group.main = "exited"
    /\ group.exit = 0
    /\ Len(group.returned) = 4
    /\ group.returned[1].actor = "signal"
    /\ group.shutdownErr = "shutdown"
    /\ \E i \in 2..4 : group.returned[i] = [actor |-> "web", err |-> "listen", why |-> "error"]

====
